---- MODULE Spec2Model ----
(***************************************************************************)
(* Lead enrichment: the orchestrator (src/src/orchestrator/handler.py),    *)
(* the job queue, and the polling worker                                   *)
(* (src/src/workers/enrichment_worker.py), as one state machine.           *)
(*                                                                         *)
(* One orchestrator invocation (one job) runs against a queue that a set   *)
(* of polling workers consume.  Every call to an external service is one   *)
(* step; a call that can raise has a failing outcome.  The job update      *)
(* inside the orchestrator's own exception handler is taken to be          *)
(* accepted by the store (the handler has no handler of its own).          *)
(*                                                                         *)
(* Further specifications over the same variables follow the parts of the  *)
(* worker one at a time: scrape_website's retry loop, process_lead call by *)
(* call, check_cache, the batch entry point lambda_handler, a pool of two  *)
(* workers whose runs interleave, and update_salesforce_lead of both       *)
(* worker variants.  Two more follow the monitoring dashboard              *)
(* (src/scripts/monitor.py): its renders and its numbers.  Three more      *)
(* follow the text put into the AI prompt, the lead query of the jobs      *)
(* started after a pipeline run, and the polling worker under the          *)
(* scheduling of its process.  In these the registers fnArg, fnRet and     *)
(* fnDone hold the input, the result and the completion of the operation   *)
(* under study.                                                            *)
(***************************************************************************)
EXTENDS Integers, Sequences, FiniteSets, TLC

\* ---------------------------------------------------------------- bounds
MaxLeads == 2          \* leads the CRM can hold that match the query
MaxRedeliveries == 1   \* visibility timeouts followed (each makes a message deliverable again)
IdleSlack == 2         \* empty polls followed beyond MAX_IDLE_POLLS
MaxAgeMinutes == 2940  \* oldest cache entry looked up, in minutes
MaxBatch == 2          \* records in one batch event
ClockSkewMinutes == 60 \* how far a cache entry's time may lie ahead of the reader's clock
MaxQueuedCount == 10500 \* largest queued_count the sizing rule is applied to
MaxCount == 50         \* largest total of a progress bar; a rate is taken of up to MaxCount events
MaxJobs == 6           \* jobs the Job store holds when the dashboard reads it
MaxPages == 2          \* additional pages of one scrape

\* ------------------------------------------------------ program constants
ScheduledLimit == 10000        \* handler.py:59
PromptLimit == 3000            \* enrichment_worker.py:271
DefaultLimit == 10000          \* handler.py:211
LeadsPerWorker == 500          \* handler.py:162
MinWorkers == 2                \* handler.py:162
MaxWorkers == 10               \* handler.py:162
EcsTaskCap == 10               \* handler.py:271
DefaultIdleTimeoutMinutes == 5 \* enrichment_worker.py:486
PollsPerMinute == 3            \* enrichment_worker.py:487
MaxRetries == 3                \* enrichment_worker.py:152
BaseTimeoutMs == 20000         \* enrichment_worker.py:186
TimeoutStepMs == 10000         \* enrichment_worker.py:186
BackoffBase == 2               \* enrichment_worker.py:247
CacheValidDays == 1            \* enrichment_worker.py:324
BarWidth == 50                 \* monitor.py:140
MantissaBits == 53             \* monitor.py:145 (Python float)
ScanLimit == 50                \* monitor.py:47
LatestLimit == 5               \* monitor.py:43
OthersShown == 3               \* monitor.py:242

Min(a, b) == IF a < b THEN a ELSE b
Max(a, b) == IF a > b THEN a ELSE b

Leads == 1..MaxLeads
Malformed == 0                 \* a message whose body is not a lead task
Msgs == Leads \cup {Malformed}
Workers == {1, 2}

\* an absent JSON field / an unset record attribute
None == -1

VARIABLES
    \* orchestrator invocation
    event,          \* the invocation payload
    opc,            \* position of the orchestrator
    parameters,     \* the run parameters start_enrichment_job received
    leads_found,    \* len(leads) after the CRM query
    sendIdx,        \* leads of the list already handed to send_message
    queued_count,   \* local counter of start_enrichment_job
    requested,      \* count passed to ecs.run_task (None: never called)
    workers_started, \* what start_ecs_workers returned
    response,       \* what lambda_handler returned
    errors,         \* the calls that raised during the invocation
    \* stores and services
    crmCount,       \* CRM leads matching the fixed query, newest first 1..crmCount
    job,            \* the Job record
    results,        \* the Results store
    cache,          \* Website Content Cache entry per lead's website
    sfCompleted,    \* leads whose CRM record has Enrichment_Completed__c = true
    qstate,         \* queue: state of each message
    redeliveries,   \* queue: visibility timeouts that ran out so far
    \* polling workers
    autoShutdown,   \* AUTO_SHUTDOWN_ENABLED
    idleTimeoutMinutes, \* IDLE_TIMEOUT_MINUTES
    wpc,            \* position of each worker
    wmsg,           \* the message a worker holds
    idle_poll_count,
    shutdown,       \* the flag the signal handler sets
    exitReason,     \* why a worker left its loop
    emptyRun,       \* empty polls since the worker's last received message
    wresult,        \* how the worker's last message handling or poll ended
    \* registers of the pure-function specifications
    fnArg, fnRet, fnDone

orchVars == <<event, opc, parameters, leads_found, sendIdx, queued_count,
              requested, workers_started, response, errors>>
storeVars == <<crmCount, job, results, cache, sfCompleted>>
queueVars == <<qstate, redeliveries>>
workerVars == <<autoShutdown, idleTimeoutMinutes, wpc, wmsg, idle_poll_count,
                shutdown, exitReason, emptyRun, wresult>>
fnVars == <<fnArg, fnRet, fnDone>>
vars == <<orchVars, storeVars, queueVars, workerVars, fnVars>>

\* ------------------------------------------------------------ orchestrator

NoJob == [exists |-> FALSE, status |-> "", leads_found |-> None,
          leads_queued |-> None, workers_started |-> None,
          processed_leads |-> 0, failed_leads |-> 0, error |-> ""]

NoResponse == [statusCode |-> 0, status |-> "", leads_found |-> None,
               leads_queued |-> None, workers_started |-> None, error |-> ""]

\* the invocation payloads followed: a scheduled trigger, a direct parameter
\* object with and without a limit, a base64 string holding a parameter
\* object, a string that is not one
Events ==
    {[shape |-> "scheduled", limit |-> None, update_salesforce |-> FALSE],
     [shape |-> "direct", limit |-> 1, update_salesforce |-> FALSE],
     [shape |-> "direct", limit |-> None, update_salesforce |-> TRUE],
     [shape |-> "base64", limit |-> 1, update_salesforce |-> TRUE],
     [shape |-> "badstring", limit |-> None, update_salesforce |-> FALSE]}

\* isinstance(event, str)
IsString(ev) == ev.shape \in {"base64", "badstring"}

\* lambda_handler, lines 65-71: a string is decoded and parsed; a string
\* that does not decode is kept as it is
DecodeEvent(ev) ==
    IF ev.shape = "base64" THEN [ev EXCEPT !.shape = "direct"] ELSE ev

\* lambda_handler, line 54: event.get, which a string does not have
SourceTestRaises(ev) == IsString(ev)

\* lambda_handler, lines 53-81: the parameters a payload resolves to
EventParams(ev) ==
    IF ev.shape = "scheduled"
    THEN [update_salesforce |-> TRUE, limit |-> ScheduledLimit]
    ELSE [update_salesforce |-> ev.update_salesforce,
          limit |-> IF ev.limit # None /\ ev.limit # 0 THEN ev.limit ELSE None]

\* fetch_salesforce_leads, lines 211 and 226-227: the LIMIT of the query
\* (None: no LIMIT clause)
QueryLimit(params) ==
    LET limit == IF params.limit = None THEN DefaultLimit ELSE params.limit
    IN IF limit # 0 THEN limit ELSE None

\* fetch_salesforce_leads: number of records query_all returns
FetchCount(params, n) ==
    IF QueryLimit(params) = None THEN n ELSE Min(n, QueryLimit(params))

\* the division rounded up instead of down
OptimalWorkersRoundUp(queued) ==
    Min(Max(MinWorkers, (queued + LeadsPerWorker - 1) \div LeadsPerWorker), MaxWorkers)

\* start_enrichment_job, line 162
OptimalWorkers(queued) == Min(Max(MinWorkers, queued \div LeadsPerWorker), MaxWorkers)

\* start_ecs_workers, line 271
SafeCount(count) == Min(count, EcsTaskCap)

\* a write of the Job record's status
SetStatus(j, s) == [j EXCEPT !.exists = TRUE, !.status = s]

\* the failure update without the error text
FailedJobNoError(j, msg) == SetStatus(j, "failed")

\* the error swallowed: a success status is returned
ErrorResponseSwallowed(msg) == [NoResponse EXCEPT !.statusCode = 200]

\* the error text written without the status
FailedJobKeepsStatus(j, msg) == [j EXCEPT !.exists = TRUE, !.error = msg]

\* start_enrichment_job, lines 193-205, and lambda_handler, lines 85-92:
\* the job is marked failed, the error re-raised and turned into a 500 body
FailedJob(j, msg) == [SetStatus(j, "failed") EXCEPT !.error = msg]

ErrorResponse(msg) == [NoResponse EXCEPT !.statusCode = 500, !.error = msg]

JobFails(step, msg) ==
    /\ job' = FailedJob(job, msg)
    /\ errors' = errors \cup {step}
    /\ response' = ErrorResponse(msg)
    /\ opc' = "done"

\* lambda_handler, lines 36-83: credentials, then the payload's shape
LambdaStart ==
    /\ opc = "invoked"
    /\ \E secretOk \in BOOLEAN :
        \* lines 43-51: a failed lookup leaves the ambient credentials in use
        LET errs == {}
            ev == DecodeEvent(event)
        IN IF SourceTestRaises(event) \/ IsString(ev)
           THEN \* event.get on a str raises, at line 54 or at line 74:
                \* caught at line 85
                /\ errors' = errs \cup {"event"}
                /\ response' = ErrorResponse("no attribute get")
                /\ opc' = "done"
                /\ UNCHANGED parameters
           ELSE /\ errors' = errs
                /\ parameters' = EventParams(ev)
                /\ opc' = "connect"
                /\ UNCHANGED response
    /\ UNCHANGED <<event, leads_found, sendIdx, queued_count, requested, workers_started>>
    /\ UNCHANGED <<storeVars, queueVars, workerVars, fnVars>>

\* start_enrichment_job, lines 105-114: the CRM login; a failure is re-raised
\* before any Job record exists
ConnectCrm ==
    /\ opc = "connect"
    /\ \E ok \in BOOLEAN :
        IF ok
        THEN opc' = "put_job" /\ UNCHANGED <<errors, response>>
        ELSE /\ errors' = errors \cup {"connect"}
             /\ response' = ErrorResponse("connect failed")
             /\ opc' = "done"
    /\ UNCHANGED <<event, parameters, leads_found, sendIdx, queued_count, requested, workers_started>>
    /\ UNCHANGED <<storeVars, queueVars, workerVars, fnVars>>

\* start_enrichment_job, lines 117-125: the initial record; put_item is
\* outside the try block
PutJob ==
    /\ opc = "put_job"
    /\ \E ok \in BOOLEAN :
        IF ok
        THEN /\ job' = SetStatus(job, "fetching_leads")
             /\ opc' = "fetch"
             /\ UNCHANGED <<errors, response>>
        ELSE /\ errors' = errors \cup {"put_job"}
             /\ response' = ErrorResponse("put_item failed")
             /\ opc' = "done"
             /\ UNCHANGED job
    /\ UNCHANGED <<event, parameters, leads_found, sendIdx, queued_count, requested, workers_started>>
    /\ UNCHANGED <<crmCount, results, cache, sfCompleted>>
    /\ UNCHANGED <<queueVars, workerVars, fnVars>>

\* start_enrichment_job, lines 129-130
FetchLeads ==
    /\ opc = "fetch"
    /\ \E ok \in BOOLEAN :
        IF ok
        THEN /\ leads_found' = FetchCount(parameters, crmCount)
             /\ opc' = "update_queuing"
             /\ UNCHANGED <<job, errors, response>>
        ELSE JobFails("query", "query failed") /\ UNCHANGED leads_found
    /\ UNCHANGED <<event, parameters, sendIdx, queued_count, requested, workers_started>>
    /\ UNCHANGED <<crmCount, results, cache, sfCompleted>>
    /\ UNCHANGED <<queueVars, workerVars, fnVars>>

\* start_enrichment_job, lines 134-145
UpdateQueuing ==
    /\ opc = "update_queuing"
    /\ \E ok \in BOOLEAN :
        IF ok
        THEN /\ job' = [SetStatus(job, "queuing_leads") EXCEPT !.leads_found = leads_found]
             /\ queued_count' = 0
             /\ sendIdx' = 0
             /\ opc' = "send"
             /\ UNCHANGED <<errors, response>>
        ELSE JobFails("update_queuing", "update_item failed")
             /\ UNCHANGED <<queued_count, sendIdx>>
    /\ UNCHANGED <<event, parameters, leads_found, requested, workers_started>>
    /\ UNCHANGED <<crmCount, results, cache, sfCompleted>>
    /\ UNCHANGED <<queueVars, workerVars, fnVars>>

\* the counter not advanced after a send
QueuedAfterSendStale(q) == q

\* start_enrichment_job, lines 146-157: one iteration of the send loop
QueuedAfterSend(q) == q + 1

SendLead ==
    /\ opc = "send"
    /\ sendIdx < leads_found
    /\ \E ok \in BOOLEAN :
        IF ok
        THEN /\ qstate' = [qstate EXCEPT ![sendIdx + 1] = "visible"]
             /\ queued_count' = QueuedAfterSend(queued_count)
             /\ sendIdx' = sendIdx + 1
             /\ UNCHANGED <<job, errors, response, opc>>
        ELSE JobFails("send", "send_message failed")
             /\ UNCHANGED <<qstate, queued_count, sendIdx>>
    /\ UNCHANGED <<event, parameters, leads_found, requested, workers_started>>
    /\ UNCHANGED <<crmCount, results, cache, sfCompleted>>
    /\ UNCHANGED <<redeliveries, workerVars, fnVars>>

\* lines 162, 166 and 271-276: the count the compute service is asked for
RequestedWorkers(queued) == SafeCount(OptimalWorkers(queued))

\* the handler of run_task's exception returning the count asked for
EcsStartedIgnoresError(raised, placed) == placed

\* start_ecs_workers, lines 287-300: what the call returns.  `placed` is the
\* number of tasks the service placed; an exception of run_task gives 0
EcsStarted(raised, placed) == IF raised THEN 0 ELSE placed

\* the worker processes a placement starts, among those not running
Started(placed) ==
    {w \in Workers : wpc[w] = "off" /\ Cardinality({v \in Workers : wpc[v] = "off" /\ v < w}) < placed}

\* start_enrichment_job, lines 159-167 (the send loop is over), with
\* start_ecs_workers (lines 267-300), which never raises
StartWorkers ==
    /\ opc = "send"
    /\ sendIdx = leads_found
    /\ requested' = RequestedWorkers(queued_count)
    /\ \E raised \in BOOLEAN : \E placed \in {0, 1, requested'} :
        /\ workers_started' = EcsStarted(raised, placed)
        /\ wpc' = [w \in Workers |->
                     IF ~raised /\ w \in Started(placed) THEN "poll" ELSE wpc[w]]
        /\ errors' = IF raised THEN errors \cup {"run_task"} ELSE errors
    /\ opc' = "update_processing"
    /\ UNCHANGED <<event, parameters, leads_found, sendIdx, queued_count, response>>
    /\ UNCHANGED <<storeVars, queueVars, fnVars>>
    /\ UNCHANGED <<autoShutdown, idleTimeoutMinutes, wmsg, idle_poll_count,
                   shutdown, exitReason, emptyRun, wresult>>

\* start_enrichment_job, lines 170-191: the final update and the payload returned
ProcessingJob(j, queued, workers) ==
    [SetStatus(j, "processing") EXCEPT !.leads_queued = queued,
                                       !.workers_started = workers]

SuccessResponse(found, queued, workers) ==
    [NoResponse EXCEPT !.statusCode = 200, !.status = "processing",
                       !.leads_found = found, !.leads_queued = queued,
                       !.workers_started = workers]

UpdateProcessing ==
    /\ opc = "update_processing"
    /\ \E ok \in BOOLEAN :
        IF ok
        THEN /\ job' = ProcessingJob(job, queued_count, workers_started)
             /\ response' = SuccessResponse(leads_found, queued_count, workers_started)
             /\ opc' = "done"
             /\ UNCHANGED errors
        ELSE JobFails("update_processing", "update_item failed")
    /\ UNCHANGED <<event, parameters, leads_found, sendIdx, queued_count,
                   requested, workers_started>>
    /\ UNCHANGED <<crmCount, results, cache, sfCompleted>>
    /\ UNCHANGED <<queueVars, workerVars, fnVars>>

\* ------------------------------------------------------------------ queue

\* the queue's visibility timeout of a delivered message runs out, whether
\* or not a worker is still handling it: the message can be delivered again
VisibilityTimeout(m) ==
    /\ qstate[m] = "inflight"
    /\ redeliveries < MaxRedeliveries
    /\ qstate' = [qstate EXCEPT ![m] = "visible"]
    /\ redeliveries' = redeliveries + 1
    /\ UNCHANGED <<orchVars, storeVars, workerVars, fnVars>>

\* some other producer puts a message on the queue that is no lead task
ForeignSend ==
    /\ qstate[Malformed] = "absent"
    /\ qstate' = [qstate EXCEPT ![Malformed] = "visible"]
    /\ UNCHANGED <<redeliveries, orchVars, storeVars, workerVars, fnVars>>

\* sqs.delete_message
DeleteMessage(q, m) == [q EXCEPT ![m] = "deleted"]

\* --------------------------------------------------------- polling worker

\* main, line 487
MaxIdlePolls(minutes) == minutes * PollsPerMinute

\* the idle test never met
IdleExitNever(enabled, count, minutes) == FALSE

\* the idle test off by one
IdleExitStrict(enabled, count, minutes) == enabled /\ count > MaxIdlePolls(minutes)

\* main, line 516
IdleExit(enabled, count, minutes) == enabled /\ count >= MaxIdlePolls(minutes)

\* main, line 524
IdleAfterReceive(count) == 0

\* what the services answer during one pipeline run
PipelineEnvs ==
    [scrapeOk : BOOLEAN, extractOk : BOOLEAN, putOk : BOOLEAN, errPutOk : BOOLEAN,
     cacheReadOk : BOOLEAN, cacheWriteOk : BOOLEAN, sfOk : BOOLEAN, counterOk : BOOLEAN]

\* every call but the scrape succeeds
ScrapeFaults ==
    {e \in PipelineEnvs : e.extractOk /\ e.putOk /\ e.errPutOk /\ e.cacheReadOk
                          /\ e.cacheWriteOk /\ e.sfOk /\ e.counterOk}

\* one fault a run: the scrape fails, or the Results store is down for the
\* whole run
ScrapeAndStoreFaults ==
    {e \in PipelineEnvs : e.extractOk /\ e.putOk = e.errPutOk /\ (e.putOk \/ e.scrapeOk)
                          /\ e.cacheReadOk /\ e.cacheWriteOk /\ e.sfOk /\ e.counterOk}

\* a failed write-back fails the lead
PipelineOutcomeFailsOnWriteBack(website, cached, env) ==
    IF ~website THEN (IF env.errPutOk THEN "no_website" ELSE "raised")
    ELSE IF ~(cached \/ env.scrapeOk)
         THEN (IF env.errPutOk THEN "scrape_failed" ELSE "raised")
    ELSE IF ~env.extractOk
         THEN (IF env.errPutOk THEN "extract_failed" ELSE "raised")
    ELSE IF env.putOk /\ env.sfOk THEN "success"
    ELSE IF env.errPutOk THEN "store_error" ELSE "raised"

\* process_lead, lines 90-149: how one run ends.
\*   success          the enriched result is stored and returned
\*   no_website, scrape_failed, extract_failed   save_error_result, returns None
\*   store_error      put_item raised, save_error_result stored the error
\*   raised           put_item raised in save_error_result too: the run raises
PipelineOutcome(website, cached, env) ==
    IF ~website THEN (IF env.errPutOk THEN "no_website" ELSE "raised")
    ELSE IF ~(cached \/ env.scrapeOk)
         THEN (IF env.errPutOk THEN "scrape_failed" ELSE "raised")
    ELSE IF ~env.extractOk
         THEN (IF env.errPutOk THEN "extract_failed" ELSE "raised")
    ELSE IF env.putOk THEN "success"
    ELSE IF env.errPutOk THEN "store_error" ELSE "raised"

\* process_lead's return value is truthy (lines 145, 356)
Truthy(outcome) == outcome = "success"

\* the message deleted whenever the run did not raise
DeletesMessageUnlessRaised(result) == result # "raised"

\* main, line 541: `if result`, on what the handling of the message left
DeletesMessage(result) == result = "result"

\* results_table.put_item: the item replaces the one with the same key
PutResult(store, item) == {r \in store : r.lead # item.lead} \cup {item}

\* lines 119-131 and 345-354: the item a run writes
ResultItem(l, outcome) ==
    IF outcome = "success" THEN [lead |-> l, kind |-> "success", error |-> ""]
    ELSE [lead |-> l, kind |-> "failed",
          error |-> CASE outcome = "no_website" -> "No website URL provided"
                      [] outcome = "scrape_failed" -> "Failed to scrape website"
                      [] outcome = "extract_failed" -> "Failed to extract information"
                      [] OTHER -> "put_item failed"]

\* the counter written with SET instead of ADD
UpdateJobProgressSet(j, success, ok) ==
    IF ~ok THEN j
    ELSE IF success THEN [j EXCEPT !.exists = TRUE, !.processed_leads = 1]
    ELSE [j EXCEPT !.exists = TRUE, !.failed_leads = 1]

\* the progress written with put_item: the record is replaced
UpdateJobProgressPut(j, success, ok) ==
    IF ~ok THEN j
    ELSE IF success THEN [NoJob EXCEPT !.exists = TRUE, !.processed_leads = j.processed_leads + 1]
    ELSE [NoJob EXCEPT !.exists = TRUE, !.failed_leads = j.failed_leads + 1]

\* the worker marking the job completed with its count
UpdateJobProgressCompletes(j, success, ok) ==
    IF ~ok THEN j
    ELSE IF success THEN [j EXCEPT !.exists = TRUE, !.status = "completed",
                                   !.processed_leads = @ + 1]
    ELSE [j EXCEPT !.exists = TRUE, !.status = "completed", !.failed_leads = @ + 1]

\* both counters incremented
UpdateJobProgressBoth(j, success, ok) ==
    IF ~ok THEN j
    ELSE [j EXCEPT !.exists = TRUE, !.processed_leads = @ + 1, !.failed_leads = @ + 1]

\* update_job_progress, lines 445-461: an atomic ADD; an error is swallowed
UpdateJobProgress(j, success, ok) ==
    IF ~ok THEN j
    ELSE IF success THEN [j EXCEPT !.exists = TRUE, !.processed_leads = @ + 1]
    ELSE [j EXCEPT !.exists = TRUE, !.failed_leads = @ + 1]

\* the lookup returning every entry, whatever its age
CacheHitAnyAge(entry, env) == entry # "none" /\ env.cacheReadOk

\* check_cache, lines 317-328: the lookup returns the content of an entry of
\* less than a day; an error of get_item is swallowed and gives nothing
CacheHit(entry, env) == entry = "fresh" /\ env.cacheReadOk

\* process_lead, lines 98-108, and cache_content: the cache entry after the
\* lookup and the scrape
CacheAfter(entry, website, env) ==
    IF website /\ ~CacheHit(entry, env) /\ env.scrapeOk /\ env.cacheWriteOk
    THEN "fresh" ELSE entry

\* process_lead, lines 134-140: the CRM record is updated when write-back is
\* requested and the update goes through
WritesBack(params, outcome, env) ==
    outcome = "success" /\ params.update_salesforce /\ env.sfOk

\* the flag not looked at
LoopGoesOnAlways(flag) == TRUE

\* main, line 499: `while not shutdown`
LoopGoesOn(flag) == ~flag

\* main, lines 499-507: the loop condition holds and receive_message is
\* called; the call, a long poll, is then in progress
BeginPoll(w) ==
    /\ wpc[w] = "poll"
    /\ LoopGoesOn(shutdown[w])
    /\ wpc' = [wpc EXCEPT ![w] = "receiving"]
    /\ wresult' = [wresult EXCEPT ![w] = "none"]
    /\ UNCHANGED <<autoShutdown, idleTimeoutMinutes, wmsg, idle_poll_count,
                   shutdown, exitReason, emptyRun>>
    /\ UNCHANGED <<orchVars, storeVars, queueVars, fnVars>>

\* main, lines 502-524: the poll returns a message
Receive(w, m) ==
    /\ wpc[w] = "receiving"
    /\ qstate[m] = "visible"
    /\ qstate' = [qstate EXCEPT ![m] = "inflight"]
    /\ wmsg' = [wmsg EXCEPT ![w] = m]
    /\ idle_poll_count' = [idle_poll_count EXCEPT ![w] = IdleAfterReceive(@)]
    /\ emptyRun' = [emptyRun EXCEPT ![w] = 0]
    /\ wpc' = [wpc EXCEPT ![w] = "process"]
    /\ UNCHANGED <<autoShutdown, idleTimeoutMinutes, shutdown, exitReason, wresult>>
    /\ UNCHANGED <<redeliveries, orchVars, storeVars, fnVars>>

\* main, lines 502-521: the poll returns no message
EmptyPoll(w) ==
    /\ wpc[w] = "receiving"
    /\ \A m \in Msgs : qstate[m] # "visible"
    /\ idle_poll_count[w] < MaxIdlePolls(idleTimeoutMinutes) + IdleSlack
    /\ idle_poll_count' = [idle_poll_count EXCEPT ![w] = @ + 1]
    /\ emptyRun' = [emptyRun EXCEPT ![w] = @ + 1]
    /\ IF IdleExit(autoShutdown, idle_poll_count'[w], idleTimeoutMinutes)
       THEN /\ wpc' = [wpc EXCEPT ![w] = "exited"]
            /\ exitReason' = [exitReason EXCEPT ![w] = "idle"]
       ELSE /\ wpc' = [wpc EXCEPT ![w] = "poll"]
            /\ UNCHANGED exitReason
    /\ UNCHANGED <<autoShutdown, idleTimeoutMinutes, wmsg, shutdown, wresult>>
    /\ UNCHANGED <<orchVars, storeVars, queueVars, fnVars>>

\* the failed poll resetting the idle count
PollErrorResetsIdle(w) ==
    /\ wpc[w] = "receiving"
    /\ wpc' = [wpc EXCEPT ![w] = "poll"]
    /\ wresult' = [wresult EXCEPT ![w] = "poll_error"]
    /\ idle_poll_count' = [idle_poll_count EXCEPT ![w] = 0]
    /\ UNCHANGED <<autoShutdown, idleTimeoutMinutes, wmsg,
                   shutdown, exitReason, emptyRun>>
    /\ UNCHANGED <<orchVars, storeVars, queueVars, fnVars>>

\* main, lines 557-559: receive_message raises; the handler logs the error,
\* sleeps 5 seconds and the loop goes on
PollError(w) ==
    /\ wpc[w] = "receiving"
    /\ wpc' = [wpc EXCEPT ![w] = "poll"]
    /\ wresult' = [wresult EXCEPT ![w] = "poll_error"]
    /\ UNCHANGED <<autoShutdown, idleTimeoutMinutes, wmsg, idle_poll_count,
                   shutdown, exitReason, emptyRun>>
    /\ UNCHANGED <<orchVars, storeVars, queueVars, fnVars>>

\* main, lines 472-475: SIGTERM or SIGINT; the handler sets the flag and the
\* interrupted code, a poll in progress included, goes on
Signal(w) ==
    /\ wpc[w] \in {"poll", "receiving", "process", "handled"}
    /\ ~shutdown[w]
    /\ shutdown' = [shutdown EXCEPT ![w] = TRUE]
    /\ UNCHANGED <<autoShutdown, idleTimeoutMinutes, wpc, wmsg,
                   idle_poll_count, exitReason, emptyRun, wresult>>
    /\ UNCHANGED <<orchVars, storeVars, queueVars, fnVars>>

\* main, lines 499 and 561: the loop condition fails
ExitOnSignal(w) ==
    /\ wpc[w] = "poll"
    /\ ~LoopGoesOn(shutdown[w])
    /\ wpc' = [wpc EXCEPT ![w] = "exited"]
    /\ exitReason' = [exitReason EXCEPT ![w] = "signal"]
    /\ UNCHANGED <<autoShutdown, idleTimeoutMinutes, wmsg,
                   idle_poll_count, shutdown, emptyRun, wresult>>
    /\ UNCHANGED <<orchVars, storeVars, queueVars, fnVars>>

\* main, lines 526-539, on a message that is no lead task: the parse raises
\* and the handler of lines 553-555 logs it
ProcessMalformed(w) ==
    /\ wpc[w] = "process"
    /\ wmsg[w] = Malformed
    /\ wresult' = [wresult EXCEPT ![w] = "raised"]
    /\ wpc' = [wpc EXCEPT ![w] = "handled"]
    /\ UNCHANGED <<autoShutdown, idleTimeoutMinutes, wmsg,
                   idle_poll_count, shutdown, exitReason, emptyRun>>
    /\ UNCHANGED <<orchVars, storeVars, queueVars, fnVars>>

\* main, lines 526-539: process_lead (lines 88-149) run to completion, the
\* services answering as one of `envs`
ProcessMessage(w, envs) ==
    /\ wpc[w] = "process"
    /\ wmsg[w] \in Leads
    /\ \E env \in envs :
        LET l == wmsg[w]
            outcome == PipelineOutcome(TRUE, CacheHit(cache[l], env), env)
        IN /\ cache' = [cache EXCEPT ![l] = CacheAfter(@, TRUE, env)]
           /\ IF outcome = "raised"
              THEN UNCHANGED <<results, job>>
              ELSE /\ results' = PutResult(results, ResultItem(l, outcome))
                   /\ job' = UpdateJobProgress(job, Truthy(outcome), env.counterOk)
           /\ sfCompleted' = IF WritesBack(parameters, outcome, env)
                             THEN sfCompleted \cup {l} ELSE sfCompleted
           /\ wresult' = [wresult EXCEPT ![w] = IF outcome = "raised" THEN "raised"
                                                 ELSE IF Truthy(outcome) THEN "result"
                                                 ELSE "no_result"]
    /\ wpc' = [wpc EXCEPT ![w] = "handled"]
    /\ UNCHANGED <<autoShutdown, idleTimeoutMinutes, wmsg,
                   idle_poll_count, shutdown, exitReason, emptyRun>>
    /\ UNCHANGED <<crmCount, queueVars, orchVars, fnVars>>

\* main, lines 541-555: the message is deleted when process_lead returned a
\* result; otherwise it is left to the queue
FinishMessage(w) ==
    /\ wpc[w] = "handled"
    /\ qstate' = IF DeletesMessage(wresult[w]) THEN DeleteMessage(qstate, wmsg[w]) ELSE qstate
    /\ wresult' = [wresult EXCEPT ![w] = "none"]
    /\ wpc' = [wpc EXCEPT ![w] = "poll"]
    /\ UNCHANGED <<autoShutdown, idleTimeoutMinutes, wmsg,
                   idle_poll_count, shutdown, exitReason, emptyRun>>
    /\ UNCHANGED <<redeliveries, orchVars, storeVars, fnVars>>

\* ------------------------------------------------------------------- text
\* A text is the sequence of its characters.

UpperCase == <<"A", "B", "C", "D", "E", "F", "G", "H", "I", "J", "K", "L", "M", "N", "O", "P", "Q", "R", "S", "T", "U", "V", "W", "X", "Y", "Z">>
LowerCase == <<"a", "b", "c", "d", "e", "f", "g", "h", "i", "j", "k", "l", "m", "n", "o", "p", "q", "r", "s", "t", "u", "v", "w", "x", "y", "z">>

\* str.lower, on one character and on a text
LowerChar(c) ==
    IF \E i \in DOMAIN UpperCase : UpperCase[i] = c
    THEN LowerCase[CHOOSE i \in DOMAIN UpperCase : UpperCase[i] = c]
    ELSE c

Lower(t) == [i \in 1..Len(t) |-> LowerChar(t[i])]

\* `pat in t`
Contains(t, pat) ==
    \E i \in 0..(Len(t) - Len(pat)) : SubSeq(t, i + 1, i + Len(pat)) = pat

\* --------------------------------------------------------- scrape_website

\* scrape_website, lines 234-238
retryable_errors ==
    <<<<"t", "i", "m", "e", "o", "u", "t">>,
      <<"n", "e", "t", ":", ":", "e", "r", "r", "_", "c", "e", "r", "t", "_", "d", "a", "t", "e", "_", "i", "n", "v", "a", "l", "i", "d">>,
      <<"n", "e", "t", ":", ":", "e", "r", "r", "_", "c", "o", "n", "n", "e", "c", "t", "i", "o", "n", "_", "r", "e", "f", "u", "s", "e", "d">>,
      <<"n", "e", "t", ":", ":", "e", "r", "r", "_", "c", "o", "n", "n", "e", "c", "t", "i", "o", "n", "_", "t", "i", "m", "e", "d", "_", "o", "u", "t">>,
      <<"n", "e", "t", ":", ":", "e", "r", "r", "_", "n", "a", "m", "e", "_", "n", "o", "t", "_", "r", "e", "s", "o", "l", "v", "e", "d">>,
      <<"c", "o", "n", "n", "e", "c", "t", "i", "o", "n", " ", "c", "l", "o", "s", "e", "d">>,
      <<"c", "o", "n", "n", "e", "c", "t", "i", "o", "n", " ", "r", "e", "s", "e", "t">>>>

\* the texts of the errors an attempt is followed with
MsgTimeout == <<"T", "i", "m", "e", "o", "u", "t", " ", "2", "0", "0", "0", "0", "m", "s">>
MsgTimeoutUpper == <<"T", "I", "M", "E", "O", "U", "T">>
MsgNameNotResolved == <<"n", "e", "t", ":", ":", "E", "R", "R", "_", "N", "A", "M", "E", "_", "N", "O", "T", "_", "R", "E", "S", "O", "L", "V", "E", "D">>
MsgConnectionReset == <<"C", "o", "n", "n", "e", "c", "t", "i", "o", "n", " ", "r", "e", "s", "e", "t">>
MsgTimedOut == <<"t", "i", "m", "e", "d", " ", "o", "u", "t">>
MsgAborted == <<"n", "e", "t", ":", ":", "E", "R", "R", "_", "A", "B", "O", "R", "T", "E", "D">>
MsgNotFound == <<"H", "T", "T", "P", " ", "4", "0", "4">>

ErrorMessages ==
    {MsgTimeout, MsgTimeoutUpper, MsgNameNotResolved, MsgConnectionReset,
     MsgTimedOut, MsgAborted, MsgNotFound}

\* what one attempt can end with: the page's content, or an error
PageLoaded == <<"o", "k">>
AttemptResults == {PageLoaded} \cup ErrorMessages

\* the match without lowering the error message
IsRetryableCaseSensitive(msg) ==
    \E k \in DOMAIN retryable_errors : Contains(msg, Lower(retryable_errors[k]))

\* scrape_website, line 240
IsRetryable(msg) ==
    \E k \in DOMAIN retryable_errors : Contains(Lower(msg), Lower(retryable_errors[k]))

\* scrape_website, line 186
AttemptTimeout(attempt) == BaseTimeoutMs + attempt * TimeoutStepMs

\* scrape_website, line 242
GivesUp(msg, attempt) == ~IsRetryable(msg) \/ attempt = MaxRetries - 1

\* the delay doubled once too often
WaitTimeFromTwo(attempt) == BackoffBase ^ (attempt + 1)

\* scrape_website, line 247
WaitTime(attempt) == BackoffBase ^ attempt

\* scrape_website's locals before the first attempt
ScrapeStart == [attempt |-> 0, timeouts |-> <<>>, waits |-> <<>>, result |-> "running"]

\* scrape_website, lines 156-251: one iteration of the loop, the attempt
\* ending as the script fnArg says
ScrapeAttempt ==
    /\ ~fnDone
    /\ fnRet.result = "running"
    /\ LET attempt == fnRet.attempt
           timeouts == Append(fnRet.timeouts, AttemptTimeout(attempt))
           how == fnArg[attempt + 1]
       IN IF attempt >= MaxRetries
          THEN /\ fnRet' = [fnRet EXCEPT !.result = "none"]
               /\ fnDone' = TRUE
          ELSE IF how = PageLoaded
          THEN /\ fnRet' = [fnRet EXCEPT !.timeouts = timeouts, !.attempt = attempt + 1,
                                         !.result = "content"]
               /\ fnDone' = TRUE
          ELSE IF GivesUp(how, attempt)
          THEN /\ fnRet' = [fnRet EXCEPT !.timeouts = timeouts, !.attempt = attempt + 1,
                                         !.result = "none"]
               /\ fnDone' = TRUE
          ELSE /\ fnRet' = [fnRet EXCEPT !.timeouts = timeouts, !.attempt = attempt + 1,
                                         !.waits = Append(@, WaitTime(attempt))]
               /\ fnDone' = FALSE
    /\ UNCHANGED <<fnArg, orchVars, storeVars, queueVars, workerVars>>

\* ------------------------------------------------- process_lead in detail

\* an optional value: Nil is None (or an absent key), Some(v) is the text v,
\* Num(n) the number n
Nil == <<>>
Some(v) == <<v>>
Num(n) == <<"num", n>>
IsText(value) == Len(value) = 1
Val(value) == IF IsText(value) THEN value[1] ELSE value

\* the truth value Python gives a value: None, "" and 0 are false
Truth(value) ==
    /\ value # Nil
    /\ IF IsText(value) THEN value[1] # <<>> ELSE value[2] # 0

\* str.strip, for texts whose only whitespace is the blank
Strip(t) ==
    LET kept == {i \in 1..Len(t) : t[i] # " "}
    IN IF kept = {} THEN <<>>
       ELSE SubSeq(t, CHOOSE i \in kept : \A j \in kept : i <= j,
                      CHOOSE i \in kept : \A j \in kept : i >= j)

\* update_salesforce_lead, line 378
invalid_strings ==
    {<<"n", "o", "t", " ", "f", "o", "u", "n", "d">>,
     <<"u", "n", "k", "n", "o", "w", "n">>,
     <<"n", "/", "a">>,
     <<"n", "o", "n", "e">>,
     <<"n", "u", "l", "l">>,
     <<>>}

\* the test without the strip
is_valid_value_unstripped(value) ==
    /\ Truth(value)
    /\ IsText(value) => Lower(value[1]) \notin invalid_strings

\* update_salesforce_lead.is_valid_value, lines 373-380
is_valid_value(value) ==
    /\ Truth(value)
    /\ IsText(value) => Strip(Lower(value[1])) \notin invalid_strings

\* the texts the AI answers and the leads are built from
TxtJane == <<"J", "a", "n", "e">>
TxtDoe == <<"D", "o", "e">>
TxtNotFound == <<"N", "o", "t", " ", "F", "o", "u", "n", "d">>
TxtNA == <<" ", "N", "/", "A", " ">>
TxtBlank == <<" ", " ">>
TxtStreet == <<"1", "2", " ", "O", "a", "k", " ", "S", "t">>
TxtCity == <<"A", "u", "s", "t", "i", "n">>
TxtState == <<"T", "X">>
TxtZip == <<"9", "0", "0", "0", "1">>
TxtCountry == <<"U", "S">>
TxtUrl == <<"h", "t", "t", "p", "s", ":", "/", "/", "e", "x", "a", "m", "p", "l", "e", ".", "c", "o", "m">>

\* lead.get('website'): absent, empty, or a URL
Websites == {Nil, Some(<<>>), Some(TxtUrl)}

\* only a missing key counts as no website
HasWebsiteKey(website) == website # Nil

\* process_lead, line 94: `if not website`
HasWebsite(website) == website # Nil /\ website[1] # <<>>

\* the answers of the AI followed (confidence in tenths; Nil: no such key)
InfoJane ==
    [first_name |-> Some(TxtJane), last_name |-> Some(TxtDoe), street |-> Nil,
     city |-> Some(TxtCity), state |-> Some(TxtState), postal_code |-> Nil,
     country |-> Nil, confidence |-> Some(9)]

InfoNothing ==
    [first_name |-> Some(TxtNotFound), last_name |-> Some(TxtNA), street |-> Some(<<>>),
     city |-> Some(TxtBlank), state |-> Nil, postal_code |-> Nil,
     country |-> Nil, confidence |-> Nil]

InfoAddress ==
    [first_name |-> Nil, last_name |-> Some(TxtDoe), street |-> Some(TxtStreet),
     city |-> Some(TxtCity), state |-> Nil, postal_code |-> Some(TxtZip),
     country |-> Some(TxtCountry), confidence |-> Some(10)]

Infos == {InfoJane, InfoNothing, InfoAddress}

\* the confidence cut to a whole number
ConfidenceWhole(info) ==
    IF info.confidence = Nil THEN 0 ELSE (info.confidence[1] \div 10) * 10

\* extracted_info.get('confidence', 0), lines 126 and 431
Confidence(info) == IF info.confidence = Nil THEN 0 ELSE info.confidence[1]

\* update_salesforce_lead, lines 383-411: the standard and the enriched field
\* of one extracted value
FieldPair(std, enr, value) ==
    IF is_valid_value(value) THEN {<<enr, Val(value)>>, <<std, Val(value)>>} ELSE {}

\* update_salesforce_lead, lines 414-424
AddressParts(info) ==
    LET all == <<info.street, info.city, info.state, info.postal_code, info.country>>
        valid == SelectSeq(all, is_valid_value)
    IN [i \in 1..Len(valid) |-> Val(valid[i])]

\* ', '.join(address_parts), line 427
RECURSIVE JoinParts(_)
JoinParts(parts) ==
    IF Len(parts) = 0 THEN <<>>
    ELSE IF Len(parts) = 1 THEN parts[1]
    ELSE parts[1] \o <<",", " ">> \o JoinParts(Tail(parts))

\* update_salesforce_lead, lines 383-411: update_data when the name and
\* address fields are in
NameAndAddressFields(info) ==
    FieldPair("FirstName", "Enriched_First_Name__c", info.first_name)
    \cup FieldPair("LastName", "Enriched_Last_Name__c", info.last_name)
    \cup FieldPair("Street", "Enriched_Street__c", info.street)
    \cup FieldPair("City", "Enriched_City__c", info.city)
    \cup FieldPair("State", "Enriched_State__c", info.state)
    \cup FieldPair("PostalCode", "Enriched_Postal_Code__c", info.postal_code)
    \cup FieldPair("Country", "Enriched_Country__c", info.country)

\* update_salesforce_lead, lines 370-433: update_data, as (field, value)
\* pairs, of an answer whose address parts are texts
UpdateData(info) ==
    NameAndAddressFields(info)
    \cup (IF AddressParts(info) # <<>>
          THEN {<<"Enriched_Full_Address__c", JoinParts(AddressParts(info))>>} ELSE {})
    \cup {<<"Enrichment_Confidence__c", Confidence(info)>>,
          <<"Enrichment_Source__c", "AI_Web_Scraping">>,
          <<"Enrichment_Completed__c", TRUE>>}

\* process_lead, lines 120-128: the item handed to put_item
EnrichedLead(l, info) ==
    [lead |-> l, kind |-> "success", error |-> "", confidence_score |-> Confidence(info)]

\* process_lead, lines 134-140: the dict after the write-back, which is what
\* process_lead returns; the item of line 131 was stored before
Annotated(item, writeBack, ok) ==
    IF ~writeBack THEN item
    ELSE IF ok THEN item @@ [salesforce_updated |-> TRUE]
    ELSE item @@ [salesforce_error |-> "update failed"]

\* the job counter updated before the write-back
PipelineCallsCountFirst(website, cached, env, params) ==
    IF website /\ (cached \/ env.scrapeOk) /\ env.extractOk /\ env.putOk
    THEN <<"cache_get", "extract", "put_result", "count_processed", "sf_update">>
    ELSE <<"put_error">>

\* process_lead with the functions it calls: the calls to the cache, the
\* scraper, the AI, the Results store, the CRM and the Job store, in order
PipelineCalls(website, cached, env, params) ==
    LET failure == IF env.errPutOk THEN <<"put_error", "count_failed">>
                   ELSE <<"put_error">>
        fetch == IF cached THEN <<"cache_get">>
                 ELSE IF env.scrapeOk THEN <<"cache_get", "scrape", "cache_put">>
                 ELSE <<"cache_get", "scrape">>
    IN IF ~website THEN failure
       ELSE IF ~(cached \/ env.scrapeOk) THEN fetch \o failure
       ELSE IF ~env.extractOk THEN fetch \o <<"extract">> \o failure
       ELSE IF ~env.putOk THEN fetch \o <<"extract", "put_result">> \o failure
       ELSE fetch \o <<"extract", "put_result">>
                  \o (IF params.update_salesforce THEN <<"sf_update">> ELSE <<>>)
                  \o <<"count_processed">>

Range(seq) == {seq[i] : i \in DOMAIN seq}

\* main, lines 526-539, with process_lead (lines 88-149) on the lead, the AI
\* answer and the service answers of fnArg; what the run called, issued to
\* the CRM and returned is kept in fnRet
RunPipeline(w) ==
    /\ wpc[w] = "process"
    /\ wmsg[w] \in Leads
    /\ ~fnDone
    /\ LET l == wmsg[w]
           env == fnArg.env
           website == HasWebsite(fnArg.website)
           cached == CacheHit(cache[l], env)
           outcome == PipelineOutcome(website, cached, env)
           item == IF outcome = "success" THEN EnrichedLead(l, fnArg.info)
                   ELSE ResultItem(l, outcome)
           calls == PipelineCalls(website, cached, env, parameters)
       IN /\ cache' = [cache EXCEPT ![l] = CacheAfter(@, website, env)]
          /\ IF outcome = "raised"
             THEN UNCHANGED <<results, job>>
             ELSE /\ results' = PutResult(results, item)
                  /\ job' = UpdateJobProgress(job, Truthy(outcome), env.counterOk)
          /\ sfCompleted' = IF WritesBack(parameters, outcome, env)
                            THEN sfCompleted \cup {l} ELSE sfCompleted
          /\ wresult' = [wresult EXCEPT ![w] = IF outcome = "raised" THEN "raised"
                                                ELSE IF Truthy(outcome) THEN "result"
                                                ELSE "no_result"]
          /\ fnRet' = [outcome |-> outcome,
                       returned |-> IF Truthy(outcome)
                                    THEN Some(Annotated(item, parameters.update_salesforce, env.sfOk))
                                    ELSE Nil,
                       calls |-> calls,
                       update |-> IF "sf_update" \in Range(calls)
                                  THEN UpdateData(fnArg.info) ELSE {}]
    /\ fnDone' = TRUE
    /\ wpc' = [wpc EXCEPT ![w] = "handled"]
    /\ UNCHANGED <<autoShutdown, idleTimeoutMinutes, wmsg,
                   idle_poll_count, shutdown, exitReason, emptyRun>>
    /\ UNCHANGED <<fnArg, crmCount, queueVars, orchVars>>

\* ------------------------------------------------ update_salesforce_lead
\* The write-back of both worker variants as a function of the AI answer.
\* The answer holds its address sub-record; its fields are kept side by side
\* with the names.

TxtUnknown == <<"U", "N", "K", "N", "O", "W", "N">>
TxtNone == <<"n", "o", "n", "e">>
TxtNull == <<"N", "u", "l", "l", " ">>

\* what json.loads can give one field of the answer
FieldValues ==
    {Nil, Some(<<>>), Some(TxtBlank), Some(TxtNotFound), Some(TxtUnknown), Some(TxtNA),
     Some(TxtNone), Some(TxtNull), Some(TxtJane), Num(0), Num(90001)}

InfoFields == {"first_name", "last_name", "street", "city", "state", "postal_code", "country"}

\* answers of texts and absent values
BaseInfos ==
    [first_name : {Some(TxtJane)}, last_name : {Nil, Some(TxtDoe)},
     street : {Nil, Some(TxtStreet)}, city : {Nil, Some(TxtCity)},
     state : {Nil, Some(TxtState)}, postal_code : {Nil, Some(TxtZip)},
     country : {Nil, Some(TxtCountry)}, confidence : {Some(9)}]

\* the answers followed: one field of a base answer takes any value
AnswerInfos == {[b EXCEPT ![f] = v] : b \in BaseInfos, f \in InfoFields, v \in FieldValues}

\* a part str.join does not take
IsNumber(part) == Len(part) > 0 /\ part[1] = "num"

\* ', '.join, lines 427 and 383: a part that is no text raises TypeError
JoinRaises(parts) == \E i \in DOMAIN parts : IsNumber(parts[i])

\* update_salesforce_lead of the polling worker, lines 361-442: whether it
\* raised, update_data after its field tests, and the map handed to
\* sf.Lead.update (none when the function raised before the call)
update_salesforce_lead(info) ==
    IF JoinRaises(AddressParts(info))
    THEN [raised |-> TRUE, fields |-> NameAndAddressFields(info), update |-> {}]
    ELSE [raised |-> FALSE, fields |-> NameAndAddressFields(info), update |-> UpdateData(info)]

\* enrichment_worker_ecs_optimized.py, lines 339 and 343: the test of a name
NotFoundLower == <<"n", "o", "t", " ", "f", "o", "u", "n", "d">>
EcsNameRaises(value) == Truth(value) /\ ~IsText(value)
EcsNameValid(value) == Truth(value) /\ Lower(value[1]) # NotFoundLower

EcsPair(std, enr, value, valid) ==
    IF valid THEN {<<enr, Val(value)>>, <<std, Val(value)>>} ELSE {}

\* enrichment_worker_ecs_optimized.py, lines 370-380
EcsAddressParts(info) ==
    LET all == <<info.street, info.city, info.state, info.postal_code, info.country>>
        valid == SelectSeq(all, Truth)
    IN [i \in 1..Len(valid) |-> Val(valid[i])]

\* enrichment_worker_ecs_optimized.py, lines 339-367
EcsNameAndAddressFields(info) ==
    EcsPair("FirstName", "Enriched_First_Name__c", info.first_name, EcsNameValid(info.first_name))
    \cup EcsPair("LastName", "Enriched_Last_Name__c", info.last_name, EcsNameValid(info.last_name))
    \cup EcsPair("Street", "Enriched_Street__c", info.street, Truth(info.street))
    \cup EcsPair("City", "Enriched_City__c", info.city, Truth(info.city))
    \cup EcsPair("State", "Enriched_State__c", info.state, Truth(info.state))
    \cup EcsPair("PostalCode", "Enriched_Postal_Code__c", info.postal_code, Truth(info.postal_code))
    \cup EcsPair("Country", "Enriched_Country__c", info.country, Truth(info.country))

\* update_salesforce_lead of the event-triggered worker, lines 326-397
ecs_update_salesforce_lead(info) ==
    IF EcsNameRaises(info.first_name) \/ EcsNameRaises(info.last_name)
    THEN [raised |-> TRUE, fields |-> {}, update |-> {}]
    ELSE IF JoinRaises(EcsAddressParts(info))
    THEN [raised |-> TRUE, fields |-> EcsNameAndAddressFields(info), update |-> {}]
    ELSE [raised |-> FALSE, fields |-> EcsNameAndAddressFields(info),
          update |-> EcsNameAndAddressFields(info)
              \cup (IF EcsAddressParts(info) # <<>>
                    THEN {<<"Enriched_Full_Address__c", JoinParts(EcsAddressParts(info))>>}
                    ELSE {})
              \cup {<<"Enrichment_Confidence__c", Confidence(info)>>,
                    <<"Enrichment_Source__c", "AI_Web_Scraping">>,
                    <<"Enrichment_Completed__c", TRUE>>}]

Variants == {"polling", "ecs"}

\* one call of update_salesforce_lead on the answer of fnArg
WriteBack ==
    /\ ~fnDone
    /\ fnArg.variant \in Variants
    /\ fnRet' = IF fnArg.variant = "polling" THEN update_salesforce_lead(fnArg.info)
                ELSE ecs_update_salesforce_lead(fnArg.info)
    /\ fnDone' = TRUE
    /\ UNCHANGED <<fnArg, orchVars, storeVars, queueVars, workerVars>>

\* ------------------------------------------------------------ check_cache
\* Times are minutes since an epoch.

MinutesPerDay == 24 * 60

\* datetime.isoformat and datetime.fromisoformat: a date and a time of day
IsoFormat(t) == <<t \div MinutesPerDay, t % MinutesPerDay>>
FromIso(iso) == iso[1] * MinutesPerDay + iso[2]

\* timedelta.days
TimeDeltaDays(delta) == delta \div MinutesPerDay

\* an entry of exactly the limit still counts as valid
StillValidInclusive(days) == days <= CacheValidDays

\* check_cache, line 324
StillValid(days) == days < CacheValidDays

\* cache_content, lines 334-340: the item written at time t
CacheItem(t) == [cached_at |-> IsoFormat(t)]

\* check_cache, lines 317-328: TRUE when the content is returned; a failing
\* get_item is swallowed and counts as a miss
check_cache(item, now, getOk) ==
    /\ getOk
    /\ item # Nil
    /\ StillValid(TimeDeltaDays(now - FromIso(item[1].cached_at)))

\* every service answering
AllOk ==
    [scrapeOk |-> TRUE, extractOk |-> TRUE, putOk |-> TRUE, errPutOk |-> TRUE,
     cacheReadOk |-> TRUE, cacheWriteOk |-> TRUE, sfOk |-> TRUE, counterOk |-> TRUE]

\* process_lead, lines 97-111, at time written + age on an entry written at
\* time `written`: the lookup, the scrape after a miss, the entry afterwards
CacheLookup ==
    /\ ~fnDone
    /\ LET now == fnArg.written + fnArg.age
           item == Some(CacheItem(fnArg.written))
           hit == check_cache(item, now, fnArg.getOk)
           env == [AllOk EXCEPT !.scrapeOk = fnArg.scrapeOk]
       IN /\ fnRet' = [hit |-> hit,
                       calls |-> PipelineCalls(TRUE, hit, env, parameters),
                       item |-> IF ~hit /\ env.scrapeOk THEN Some(CacheItem(now)) ELSE item]
          /\ cache' = [cache EXCEPT ![1] = CacheAfter(IF hit THEN "fresh" ELSE "stale", TRUE, env)]
    /\ fnDone' = TRUE
    /\ UNCHANGED <<fnArg, crmCount, job, results, sfCompleted>>
    /\ UNCHANGED <<orchVars, queueVars, workerVars>>

\* ------------------------------------------- lambda_handler of the workers

\* the records of a batch event: a body that is no lead task, or a lead task
\* for a lead with or without a website
BatchRecords ==
    {[lead |-> m, website |-> w] : m \in Leads, w \in {Nil, Some(TxtUrl)}}
    \cup {[lead |-> Malformed, website |-> Nil]}

Batches == UNION {[1..k -> BatchRecords] : k \in 0..MaxBatch}

\* the handler of lines 75-77 leaving the count as it is
CountRecordDropsRaised(counts, how) ==
    IF how = "result" THEN [counts EXCEPT !.processed = @ + 1]
    ELSE IF how = "no_result" THEN [counts EXCEPT !.failed = @ + 1]
    ELSE counts

\* lambda_handler, lines 70-77: the counters after one record
CountRecord(counts, how) ==
    IF how = "result" THEN [counts EXCEPT !.processed = @ + 1]
    ELSE [counts EXCEPT !.failed = @ + 1]

\* lambda_handler's locals before the first record
BatchStart == [idx |-> 0, processed |-> 0, failed |-> 0, hows |-> <<>>, statusCode |-> 0]

\* lambda_handler, lines 59-77: one iteration of the loop over the records,
\* process_lead (lines 88-149) included
BatchRecord ==
    /\ ~fnDone
    /\ fnRet.idx < Len(fnArg)
    /\ LET record == fnArg[fnRet.idx + 1]
           l == record.lead
           step(how) == [CountRecord(fnRet, how) EXCEPT !.idx = @ + 1,
                                                        !.hows = Append(@, how)]
       IN IF l = Malformed
          THEN /\ fnRet' = step("raised")
               /\ UNCHANGED <<cache, results, job, sfCompleted>>
          ELSE \E env \in ScrapeAndStoreFaults :
                 LET website == HasWebsite(record.website)
                     outcome == PipelineOutcome(website, CacheHit(cache[l], env), env)
                 IN /\ cache' = [cache EXCEPT ![l] = CacheAfter(@, website, env)]
                    /\ IF outcome = "raised"
                       THEN UNCHANGED <<results, job>>
                       ELSE /\ results' = PutResult(results, ResultItem(l, outcome))
                            /\ job' = UpdateJobProgress(job, Truthy(outcome), env.counterOk)
                    /\ sfCompleted' = IF WritesBack(parameters, outcome, env)
                                      THEN sfCompleted \cup {l} ELSE sfCompleted
                    /\ fnRet' = step(IF outcome = "raised" THEN "raised"
                                     ELSE IF Truthy(outcome) THEN "result"
                                     ELSE "no_result")
    /\ UNCHANGED <<fnArg, fnDone, crmCount>>
    /\ UNCHANGED <<orchVars, queueVars, workerVars>>

\* lambda_handler, lines 79-85
BatchReturn ==
    /\ ~fnDone
    /\ fnRet.idx = Len(fnArg)
    /\ fnRet' = [fnRet EXCEPT !.statusCode = 200]
    /\ fnDone' = TRUE
    /\ UNCHANGED <<fnArg, orchVars, storeVars, queueVars, workerVars>>

\* ------------------------------------------ process_lead, call by call
\* The pipeline run of a worker in two steps, so that the runs of several
\* workers interleave between their calls to the stores.

\* process_lead, lines 90-140 and 345-354: the run up to its write to the
\* Results store and the write-back; fnRet counts the runs by how they end
BeginRun(w, envs) ==
    /\ wpc[w] = "process"
    /\ wmsg[w] \in Leads
    /\ \E env \in envs :
        LET l == wmsg[w]
            outcome == PipelineOutcome(TRUE, CacheHit(cache[l], env), env)
        IN /\ cache' = [cache EXCEPT ![l] = CacheAfter(@, TRUE, env)]
           /\ results' = IF outcome = "raised" THEN results
                         ELSE PutResult(results, ResultItem(l, outcome))
           /\ sfCompleted' = IF WritesBack(parameters, outcome, env)
                             THEN sfCompleted \cup {l} ELSE sfCompleted
           /\ wresult' = [wresult EXCEPT ![w] = IF outcome = "raised" THEN "raised"
                                                 ELSE IF Truthy(outcome) THEN "result"
                                                 ELSE "no_result"]
           /\ fnRet' = IF outcome = "raised" THEN fnRet
                       ELSE IF Truthy(outcome) THEN [fnRet EXCEPT !.ok = @ + 1]
                       ELSE [fnRet EXCEPT !.failed = @ + 1]
    /\ wpc' = [wpc EXCEPT ![w] = "counting"]
    /\ UNCHANGED <<autoShutdown, idleTimeoutMinutes, wmsg,
                   idle_poll_count, shutdown, exitReason, emptyRun>>
    /\ UNCHANGED <<fnArg, fnDone, crmCount, job, queueVars, orchVars>>

\* process_lead, lines 143-145 and 355-356: update_job_progress, one
\* update_item call, and the return
CountRun(w) ==
    /\ wpc[w] = "counting"
    /\ job' = IF wresult[w] = "raised" THEN job
              ELSE UpdateJobProgress(job, wresult[w] = "result", TRUE)
    /\ wpc' = [wpc EXCEPT ![w] = "handled"]
    /\ UNCHANGED <<autoShutdown, idleTimeoutMinutes, wmsg, idle_poll_count,
                   shutdown, exitReason, emptyRun, wresult>>
    /\ UNCHANGED <<crmCount, results, cache, sfCompleted>>
    /\ UNCHANGED <<orchVars, queueVars, fnVars>>

\* ------------------------------------------------ monitor.py: the numbers
\* Python's float is the IEEE 754 double: a value m * 2^e with m a whole
\* number of MantissaBits bits, kept here as its bits, the first one set.

\* the bits of a positive whole number, most significant first
RECURSIVE BitsOf(_)
BitsOf(n) == IF n = 0 THEN <<>> ELSE Append(BitsOf(n \div 2), n % 2)

RECURSIVE IntOf(_)
IntOf(bits) ==
    IF bits = <<>> THEN 0
    ELSE 2 * IntOf(SubSeq(bits, 1, Len(bits) - 1)) + bits[Len(bits)]

\* long division: the next n bits of r / b for r < b, followed by what is
\* left of r
RECURSIVE DivBits(_, _, _)
DivBits(r, b, n) ==
    IF n = 0 THEN <<r>>
    ELSE IF 2 * r >= b THEN <<1>> \o DivBits(2 * r - b, b, n - 1)
    ELSE <<0>> \o DivBits(2 * r, b, n - 1)

\* the zero bits of r / b, r < b, before its first set bit
RECURSIVE LeadingZeros(_, _)
LeadingZeros(r, b) == IF 2 * r >= b THEN 0 ELSE 1 + LeadingZeros(2 * r, b)

\* bits plus one; the carry out of the first bit lengthens the sequence
Increment(bits) ==
    LET zeros == {i \in DOMAIN bits : bits[i] = 0}
        last == IF zeros = {} THEN 0 ELSE CHOOSE i \in zeros : \A j \in zeros : j <= i
    IN [i \in 1..(IF last = 0 THEN Len(bits) + 1 ELSE Len(bits)) |->
           IF last = 0 THEN (IF i = 1 THEN 1 ELSE 0)
           ELSE IF i < last THEN bits[i] ELSE IF i = last THEN 1 ELSE 0]

\* the last w bits of n
FixedBits(n, w) == [i \in 1..w |-> (n \div 2 ^ (w - i)) % 2]

\* a mantissa times the whole number k < 2^13, in three limbs of 18 bits
Times(bits, k) ==
    LET limb == 18
        base == 2 ^ limb
        lo == IntOf(SubSeq(bits, Len(bits) - limb + 1, Len(bits))) * k
        mid == IntOf(SubSeq(bits, Len(bits) - 2 * limb + 1, Len(bits) - limb)) * k
                   + lo \div base
        hi == IntOf(SubSeq(bits, 1, Len(bits) - 2 * limb)) * k + mid \div base
    IN BitsOf(hi) \o FixedBits(mid % base, limb) \o FixedBits(lo % base, limb)

\* round to nearest, ties to even: bits (at least MantissaBits of them, the
\* first one set) times 2^e, with sticky telling of a remainder below them
RoundNearestEven(bits, e, sticky) ==
    LET m == SubSeq(bits, 1, MantissaBits)
        below == SubSeq(bits, MantissaBits + 1, Len(bits))
        guard == below # <<>> /\ below[1] = 1
        more == sticky \/ \E i \in 2..Len(below) : below[i] = 1
        up == guard /\ (more \/ m[MantissaBits] = 1)
        raised == IF up THEN Increment(m) ELSE m
        e0 == e + Len(bits) - MantissaBits
    IN IF Len(raised) > MantissaBits
       THEN [m |-> SubSeq(raised, 1, MantissaBits), e |-> e0 + 1]
       ELSE [m |-> raised, e |-> e0]

\* a / b of two whole numbers, a > 0 and b > 0 (int.__truediv__)
FloatDiv(a, b) ==
    LET int == BitsOf(a \div b)
        z == IF int = <<>> THEN LeadingZeros(a % b, b) ELSE 0
        n == MantissaBits + 1 - Len(int)
        frac == DivBits((a % b) * 2 ^ z, b, n)
    IN RoundNearestEven(int \o SubSeq(frac, 1, n), 0 - z - n, frac[n + 1] # 0)

\* x * k for a float x and a whole number k (float.__mul__)
FloatTimes(x, k) == RoundNearestEven(Times(x.m, k), x.e, FALSE)

\* int(x) of a float below 2^MantissaBits
FloatToInt(x) ==
    IF MantissaBits + x.e <= 0 THEN 0 ELSE IntOf(SubSeq(x.m, 1, MantissaBits + x.e))

\* int((a / b) * 100), lines 145 and 223
PercentOf(a, b) == IF a = 0 THEN 0 ELSE FloatToInt(FloatTimes(FloatDiv(a, b), 100))

\* print_progress_bar, lines 140-150: the percentage, and the two runs of
\* characters of the bar ('x' * n is empty for a negative n)
print_progress_bar(current, total) ==
    LET filled == IF total > 0 THEN (BarWidth * current) \div total ELSE 0
    IN [percent |-> IF total = 0 THEN 0 ELSE PercentOf(current, total),
        filled |-> filled,
        empty |-> Max(0, BarWidth - filled)]

\* display_dashboard, lines 221-237: the success rate, and which of the two
\* lines are printed
ProcessingStats(successful, failed, total_remaining) ==
    LET total_processed == successful + failed
    IN [success_rate |-> IF total_processed > 0
                         THEN PercentOf(successful, total_processed) ELSE 0,
        rate_line |-> total_processed > 0,
        eta_line |-> total_processed > 0 /\ successful > 0 /\ total_remaining > 0]

\* one call of print_progress_bar
PrintProgressBar ==
    /\ ~fnDone
    /\ fnArg.fn = "bar"
    /\ fnRet' = print_progress_bar(fnArg.current, fnArg.total)
    /\ fnDone' = TRUE
    /\ UNCHANGED <<fnArg, orchVars, storeVars, queueVars, workerVars>>

\* the processing stats of one render
PrintStats ==
    /\ ~fnDone
    /\ fnArg.fn = "stats"
    /\ fnRet' = ProcessingStats(fnArg.successful, fnArg.failed, fnArg.total_remaining)
    /\ fnDone' = TRUE
    /\ UNCHANGED <<fnArg, orchVars, storeVars, queueVars, workerVars>>

\* ---------------------------------------------- monitor.py: the dashboard
\* The jobs of the Job store are numbered by their creation time, the newest
\* the highest.  Every job has leads queued.

\* the items sorted by created_at, newest first (line 60)
RECURSIVE NewestFirst(_)
NewestFirst(S) ==
    IF S = {} THEN <<>>
    ELSE LET newest == CHOOSE j \in S : \A k \in S : k <= j
         IN <<newest>> \o NewestFirst(S \ {newest})

\* jobs_table.scan(Limit=...), line 47: the pages the store may answer with
ScanPages(table, limit) ==
    {page \in SUBSET table : Cardinality(page) = Min(limit, Cardinality(table))}

\* get_latest_jobs, lines 43-64; a raised scan gives the empty list
get_latest_jobs(page, scanRaises) ==
    IF scanRaises THEN <<>>
    ELSE SubSeq(NewestFirst(page), 1, Min(LatestLimit, Cardinality(page)))

\* display_dashboard, lines 175-180: the jobs left after the selection
SelectedJobs(jobs, job_id) ==
    IF job_id = None THEN jobs
    ELSE IF job_id \in Range(jobs) THEN <<job_id>> ELSE <<>>

\* the service calls of one render with a write to the Job store among them
DashboardCallsWithUpdate(jobs, job_id, faults, tasks) ==
    <<"jobs.scan", "sqs.get_queue_attributes", "jobs.update_item">>

\* display_dashboard with the functions it calls, lines 43-138 and 161-221:
\* the calls to the services of one render, in order
DashboardCalls(jobs, job_id, faults, tasks) ==
    LET scans == IF jobs = <<>> /\ ~faults.scan THEN <<"jobs.scan", "jobs.scan">>
                 ELSE <<"jobs.scan">>
        queue == <<"sqs.get_queue_attributes">>
        ecsCalls == IF faults.workers \/ tasks = 0 THEN <<"ecs.list_tasks">>
                    ELSE <<"ecs.list_tasks", "ecs.describe_tasks">>
        logCalls == IF faults.logs THEN <<"logs.filter_log_events">>
                    ELSE <<"logs.filter_log_events", "logs.filter_log_events">>
    IN IF faults.queue THEN scans \o queue
       ELSE IF faults.workers \/ SelectedJobs(jobs, job_id) = <<>>
            THEN scans \o queue \o ecsCalls
       ELSE scans \o queue \o ecsCalls \o <<"results.query">> \o logCalls

\* display_dashboard, lines 152-243: whether the render raised, what it
\* showed, the job of the main panel and the jobs listed below it
display_dashboard(jobs, job_id, faults, tasks) ==
    LET shown == SelectedJobs(jobs, job_id)
        \* line 184: the loop assigns the panel's job to job_id
        job_id_after == IF shown = <<>> THEN job_id ELSE shown[1]
        off == [raised |-> FALSE, view |-> "", panel |-> None, others |-> <<>>,
                results_count |-> None,
                calls |-> DashboardCalls(jobs, job_id, faults, tasks)]
    IN IF faults.queue \/ faults.workers
       THEN [off EXCEPT !.raised = TRUE, !.view = "error"]
       ELSE IF jobs = <<>> THEN [off EXCEPT !.view = "no_jobs"]
       ELSE IF shown = <<>> THEN [off EXCEPT !.view = "not_found"]
       ELSE [off EXCEPT !.view = "panel", !.panel = shown[1],
                        !.results_count = IF faults.results THEN 0 ELSE Cardinality(results),
                        !.others = IF Len(shown) > 1 /\ job_id_after = None
                                   THEN SubSeq(shown, 2, Min(1 + OthersShown, Len(shown)))
                                   ELSE <<>>]

\* main, lines 253-260: one render
DisplayDashboard ==
    /\ ~fnDone
    /\ fnArg.fn = "dashboard"
    /\ \E page \in ScanPages(fnArg.table, ScanLimit) :
        fnRet' = display_dashboard(get_latest_jobs(page, fnArg.faults.scan),
                                   fnArg.job_id, fnArg.faults, workers_started)
    /\ fnDone' = TRUE
    /\ UNCHANGED <<fnArg, orchVars, storeVars, queueVars, workerVars>>

\* main, lines 254-258 and 265-267: in watch mode the render is repeated
\* after the sleep; a render that raised ends the program
Watch ==
    /\ fnDone
    /\ fnArg.fn = "dashboard"
    /\ fnArg.watch
    /\ ~fnRet.raised
    /\ fnRet' = Nil
    /\ fnDone' = FALSE
    /\ UNCHANGED <<fnArg, orchVars, storeVars, queueVars, workerVars>>

\* ---------------------------------------------------------- specifications

InitOrchestrator ==
    /\ opc = "invoked"
    /\ parameters = [update_salesforce |-> FALSE, limit |-> None]
    /\ leads_found = 0
    /\ sendIdx = 0
    /\ queued_count = 0
    /\ requested = None
    /\ workers_started = 0
    /\ response = NoResponse
    /\ errors = {}

InitStores ==
    /\ job = NoJob
    /\ results = {}
    /\ cache = [l \in Leads |-> "none"]
    /\ sfCompleted = {}
    /\ qstate = [m \in Msgs |-> "absent"]
    /\ redeliveries = 0

InitWorkers ==
    /\ wmsg = [w \in Workers |-> None]
    /\ idle_poll_count = [w \in Workers |-> 0]
    /\ shutdown = [w \in Workers |-> FALSE]
    /\ exitReason = [w \in Workers |-> "none"]
    /\ emptyRun = [w \in Workers |-> 0]
    /\ wresult = [w \in Workers |-> "none"]

InitFn == fnArg = 0 /\ fnRet = 0 /\ fnDone = FALSE

\* The job: one invocation of the orchestrator against a CRM of up to
\* MaxLeads matching leads, with the workers taking the messages as they are
\* sent.  Worker 1 runs from an earlier placement, worker 2 is started by this
\* job's placement.  Of the services a pipeline run calls, the scrape may fail.
Init ==
    /\ InitOrchestrator /\ InitStores /\ InitWorkers /\ InitFn
    /\ event \in Events
    /\ crmCount \in 0..MaxLeads
    /\ autoShutdown = TRUE
    /\ idleTimeoutMinutes = DefaultIdleTimeoutMinutes
    /\ wpc = [w \in Workers |-> IF w = 1 THEN "poll" ELSE "off"]

Orchestrator ==
    \/ LambdaStart \/ ConnectCrm \/ PutJob \/ FetchLeads \/ UpdateQueuing
    \/ SendLead \/ StartWorkers \/ UpdateProcessing

Next ==
    \/ Orchestrator
    \/ \E m \in Leads : VisibilityTimeout(m)
    \/ \E w \in Workers :
        \/ BeginPoll(w)
        \/ \E m \in Leads : Receive(w, m)
        \/ ProcessMessage(w, ScrapeFaults)
        \/ FinishMessage(w)

Spec == Init /\ [][Next]_vars

\* The polling worker: the job was started without an error (n leads found
\* and queued, status processing) and worker 1 polls the queue, with the
\* default idle timeout, until it leaves its loop.
InitWorker ==
    /\ \E n \in 0..MaxLeads : LET ws == 1 IN
        /\ crmCount = n
        /\ leads_found = n /\ sendIdx = n /\ queued_count = n
        /\ requested = RequestedWorkers(n)
        /\ workers_started = ws
        /\ job = ProcessingJob([SetStatus(NoJob, "queuing_leads") EXCEPT !.leads_found = n], n, ws)
        /\ response = SuccessResponse(n, n, ws)
        /\ qstate = [m \in Msgs |-> IF m \in 1..n THEN "visible" ELSE "absent"]
    /\ event = [shape |-> "scheduled", limit |-> None, update_salesforce |-> FALSE]
    /\ parameters = EventParams(event)
    /\ opc = "done"
    /\ errors = {}
    /\ results = {}
    /\ cache = [l \in Leads |-> "none"]
    /\ sfCompleted = {}
    /\ redeliveries = 0
    /\ InitWorkers /\ InitFn
    /\ autoShutdown \in BOOLEAN
    /\ idleTimeoutMinutes = DefaultIdleTimeoutMinutes
    /\ wpc = [w \in Workers |-> IF w = 1 THEN "poll" ELSE "off"]

NextWorker ==
    \/ \E m \in Msgs : VisibilityTimeout(m)
    \/ ForeignSend
    \/ \E w \in Workers :
        \/ BeginPoll(w)
        \/ \E m \in Msgs : Receive(w, m)
        \/ EmptyPoll(w) \/ PollError(w) \/ Signal(w) \/ ExitOnSignal(w)
        \/ ProcessMalformed(w)
        \/ ProcessMessage(w, ScrapeAndStoreFaults)
        \/ FinishMessage(w)

SpecWorker == InitWorker /\ [][NextWorker]_vars

\* The sizing rule alone, applied to every queued_count up to MaxQueuedCount.
InitSizing ==
    /\ InitOrchestrator /\ InitStores /\ InitWorkers
    /\ event = [shape |-> "scheduled", limit |-> None, update_salesforce |-> FALSE]
    /\ crmCount = 0
    /\ autoShutdown = TRUE
    /\ idleTimeoutMinutes = DefaultIdleTimeoutMinutes
    /\ wpc = [w \in Workers |-> "off"]
    /\ fnArg \in 0..MaxQueuedCount
    /\ fnRet = 0
    /\ fnDone = FALSE

ApplySizing ==
    /\ ~fnDone
    /\ fnRet' = RequestedWorkers(fnArg)
    /\ fnDone' = TRUE
    /\ UNCHANGED <<fnArg, orchVars, storeVars, queueVars, workerVars>>

SpecSizing == InitSizing /\ [][ApplySizing]_vars

\* The scraper alone: every script of MaxRetries attempt results.
InitScrape ==
    /\ InitOrchestrator /\ InitStores /\ InitWorkers
    /\ event = [shape |-> "scheduled", limit |-> None, update_salesforce |-> FALSE]
    /\ crmCount = 0
    /\ autoShutdown = TRUE
    /\ idleTimeoutMinutes = DefaultIdleTimeoutMinutes
    /\ wpc = [w \in Workers |-> "off"]
    /\ fnArg \in [1..MaxRetries -> AttemptResults]
    /\ fnRet = ScrapeStart
    /\ fnDone = FALSE

SpecScrape == InitScrape /\ [][ScrapeAttempt]_vars

\* One message: the job was started without an error for one lead, worker 1
\* holds the lead's message and runs the pipeline on it, for every lead
\* shape, cache state, AI answer, write-back setting and service fault.
InitPipeline ==
    /\ crmCount = 1
    /\ leads_found = 1 /\ sendIdx = 1 /\ queued_count = 1
    /\ requested = RequestedWorkers(1)
    /\ workers_started = 1
    /\ job = ProcessingJob([SetStatus(NoJob, "queuing_leads") EXCEPT !.leads_found = 1], 1, 1)
    /\ response = SuccessResponse(1, 1, 1)
    /\ qstate = [m \in Msgs |-> IF m = 1 THEN "inflight" ELSE "absent"]
    /\ \E us \in BOOLEAN :
        /\ event = [shape |-> "direct", limit |-> None, update_salesforce |-> us]
        /\ parameters = EventParams(event)
    /\ opc = "done"
    /\ errors = {}
    /\ results = {}
    /\ \E c \in {"none", "fresh", "stale"} : cache = [l \in Leads |-> IF l = 1 THEN c ELSE "none"]
    /\ sfCompleted = {}
    /\ redeliveries = 0
    /\ wmsg = [w \in Workers |-> IF w = 1 THEN 1 ELSE None]
    /\ idle_poll_count = [w \in Workers |-> 0]
    /\ shutdown = [w \in Workers |-> FALSE]
    /\ exitReason = [w \in Workers |-> "none"]
    /\ emptyRun = [w \in Workers |-> 0]
    /\ wresult = [w \in Workers |-> "none"]
    /\ autoShutdown = TRUE
    /\ idleTimeoutMinutes = DefaultIdleTimeoutMinutes
    /\ wpc = [w \in Workers |-> IF w = 1 THEN "process" ELSE "off"]
    /\ fnArg \in [website : Websites, info : Infos, env : PipelineEnvs]
    /\ fnRet = [outcome |-> "", returned |-> Nil, calls |-> <<>>, update |-> {}]
    /\ fnDone = FALSE

NextPipeline == RunPipeline(1) \/ FinishMessage(1)

SpecPipeline == InitPipeline /\ [][NextPipeline]_vars

\* The cache lookup alone: an entry written at one of two times of day, read
\* at every age from -ClockSkewMinutes to MaxAgeMinutes.
InitCache ==
    /\ InitOrchestrator /\ InitStores /\ InitWorkers
    /\ event = [shape |-> "scheduled", limit |-> None, update_salesforce |-> FALSE]
    /\ crmCount = 0
    /\ autoShutdown = TRUE
    /\ idleTimeoutMinutes = DefaultIdleTimeoutMinutes
    /\ wpc = [w \in Workers |-> "off"]
    /\ fnArg \in [written : {0, MinutesPerDay - 1},
                  age : (0 - ClockSkewMinutes)..MaxAgeMinutes,
                  getOk : BOOLEAN, scrapeOk : BOOLEAN]
    /\ fnRet = [hit |-> FALSE, calls |-> <<>>, item |-> Nil]
    /\ fnDone = FALSE

SpecCache == InitCache /\ [][CacheLookup]_vars

\* The batch entry point: one event of up to MaxBatch records, for a job
\* that was started without an error.
InitBatch ==
    /\ crmCount = MaxLeads
    /\ leads_found = MaxLeads /\ sendIdx = MaxLeads /\ queued_count = MaxLeads
    /\ requested = RequestedWorkers(MaxLeads)
    /\ workers_started = 0
    /\ job = ProcessingJob([SetStatus(NoJob, "queuing_leads") EXCEPT !.leads_found = MaxLeads],
                           MaxLeads, 0)
    /\ response = SuccessResponse(MaxLeads, MaxLeads, 0)
    /\ qstate = [m \in Msgs |-> IF m \in Leads THEN "inflight" ELSE "absent"]
    /\ event = [shape |-> "scheduled", limit |-> None, update_salesforce |-> FALSE]
    /\ parameters = EventParams(event)
    /\ opc = "done"
    /\ errors = {}
    /\ results = {}
    /\ cache = [l \in Leads |-> "none"]
    /\ sfCompleted = {}
    /\ redeliveries = 0
    /\ InitWorkers
    /\ autoShutdown = TRUE
    /\ idleTimeoutMinutes = DefaultIdleTimeoutMinutes
    /\ wpc = [w \in Workers |-> "off"]
    /\ fnArg \in Batches
    /\ fnRet = BatchStart
    /\ fnDone = FALSE

NextBatch == BatchRecord \/ BatchReturn

SpecBatch == InitBatch /\ [][NextBatch]_vars

\* The worker pool: the job was started without an error and two workers
\* poll the queue at the same time; the scrape may fail, the stores answer.
InitPool ==
    /\ \E n \in 1..MaxLeads :
        /\ crmCount = n
        /\ leads_found = n /\ sendIdx = n /\ queued_count = n
        /\ requested = RequestedWorkers(n)
        /\ workers_started = 2
        /\ job = ProcessingJob([SetStatus(NoJob, "queuing_leads") EXCEPT !.leads_found = n], n, 2)
        /\ response = SuccessResponse(n, n, 2)
        /\ qstate = [m \in Msgs |-> IF m \in 1..n THEN "visible" ELSE "absent"]
    /\ event = [shape |-> "scheduled", limit |-> None, update_salesforce |-> FALSE]
    /\ parameters = EventParams(event)
    /\ opc = "done"
    /\ errors = {}
    /\ results = {}
    /\ cache = [l \in Leads |-> "none"]
    /\ sfCompleted = {}
    /\ redeliveries = 0
    /\ InitWorkers
    /\ autoShutdown = TRUE
    /\ idleTimeoutMinutes = DefaultIdleTimeoutMinutes
    /\ wpc = [w \in Workers |-> "poll"]
    /\ fnArg = 0
    /\ fnRet = [ok |-> 0, failed |-> 0]
    /\ fnDone = FALSE

NextPool ==
    \/ \E m \in Leads : VisibilityTimeout(m)
    \/ \E w \in Workers :
        \/ BeginPoll(w)
        \/ \E m \in Leads : Receive(w, m)
        \/ BeginRun(w, ScrapeFaults)
        \/ CountRun(w)
        \/ FinishMessage(w)

SpecPool == InitPool /\ [][NextPool]_vars

\* The write-back alone, on every answer of AnswerInfos and in both variants.
InitWriteBack ==
    /\ InitOrchestrator /\ InitStores /\ InitWorkers
    /\ event = [shape |-> "scheduled", limit |-> None, update_salesforce |-> FALSE]
    /\ crmCount = 0
    /\ autoShutdown = TRUE
    /\ idleTimeoutMinutes = DefaultIdleTimeoutMinutes
    /\ wpc = [w \in Workers |-> "off"]
    /\ fnArg \in [variant : Variants, info : AnswerInfos]
    /\ fnRet = Nil
    /\ fnDone = FALSE

SpecWriteBack == InitWriteBack /\ [][WriteBack]_vars

\* The dashboard's numbers: a progress bar of every current and total up to
\* MaxCount, and the stats of every pair of counts that add up to MaxCount at most.
InitNumbers ==
    /\ InitOrchestrator /\ InitStores /\ InitWorkers
    /\ event = [shape |-> "scheduled", limit |-> None, update_salesforce |-> FALSE]
    /\ crmCount = 0
    /\ autoShutdown = TRUE
    /\ idleTimeoutMinutes = DefaultIdleTimeoutMinutes
    /\ wpc = [w \in Workers |-> "off"]
    /\ \/ fnArg \in [fn : {"bar"}, current : 0..MaxCount + 1, total : 0..MaxCount]
       \/ /\ fnArg \in [fn : {"stats"}, successful : 0..MaxCount, failed : 0..MaxCount,
                        total_remaining : 0..1]
          /\ fnArg.successful + fnArg.failed <= MaxCount
    /\ fnRet = Nil
    /\ fnDone = FALSE

NextNumbers == PrintProgressBar \/ PrintStats

SpecNumbers == InitNumbers /\ [][NextNumbers]_vars

\* The dashboard beside a job in progress: the Job store holds any of MaxJobs
\* jobs, a job id is given or not, and each of the five queries answers or
\* raises.
InitDashboard ==
    /\ crmCount = MaxLeads
    /\ leads_found = MaxLeads /\ sendIdx = MaxLeads /\ queued_count = MaxLeads
    /\ requested = RequestedWorkers(MaxLeads)
    /\ workers_started = 2
    /\ job = ProcessingJob([SetStatus(NoJob, "queuing_leads") EXCEPT !.leads_found = MaxLeads],
                           MaxLeads, 2)
    /\ response = SuccessResponse(MaxLeads, MaxLeads, 2)
    /\ qstate = [m \in Msgs |-> IF m \in 2..MaxLeads THEN "visible"
                                ELSE IF m = 1 THEN "deleted" ELSE "absent"]
    /\ event = [shape |-> "scheduled", limit |-> None, update_salesforce |-> FALSE]
    /\ parameters = EventParams(event)
    /\ opc = "done"
    /\ errors = {}
    /\ results = PutResult({}, ResultItem(1, "success"))
    /\ cache = [l \in Leads |-> IF l = 1 THEN "fresh" ELSE "none"]
    /\ sfCompleted = {}
    /\ redeliveries = 0
    /\ InitWorkers
    /\ autoShutdown = TRUE
    /\ idleTimeoutMinutes = DefaultIdleTimeoutMinutes
    /\ wpc = [w \in Workers |-> "poll"]
    /\ fnArg \in [fn : {"dashboard"}, table : SUBSET (1..MaxJobs),
                  job_id : {None} \cup 1..MaxJobs, watch : BOOLEAN,
                  faults : [scan : BOOLEAN, queue : BOOLEAN, workers : BOOLEAN,
                            logs : BOOLEAN, results : BOOLEAN]]
    /\ fnRet = Nil
    /\ fnDone = FALSE

NextDashboard == DisplayDashboard \/ Watch

SpecDashboard == InitDashboard /\ [][NextDashboard]_vars

\* ------------------------------------------------------------------ claims

\* messages the orchestrator put on the queue
Sent == Cardinality({m \in Leads : qstate[m] # "absent"})

\* no worker is between receiving a message and finishing with it
WorkersAtRest == \A w \in Workers : wpc[w] \notin {"process", "handled"}

\* C1: the status of the Job record only moves fetching_leads ->
\* queuing_leads -> processing, or to failed, and nothing follows failed; in
\* particular no orchestrator or worker step takes a job at processing back
\* to fetching_leads or queuing_leads.
StatusOnlyMovesForward ==
    [][job.status' # job.status =>
          \/ <<job.status, job.status'>> \in
                {<<"", "fetching_leads">>, <<"fetching_leads", "queuing_leads">>,
                 <<"queuing_leads", "processing">>}
          \/ job.status' = "failed"]_vars

StatusWitness ==
    job.status = "processing" /\ job.processed_leads >= 1 /\ job.failed_leads >= 1

\* C2: the messages sent number leads_found, and leads_queued, in the Job
\* record and in the returned payload, is that count: whenever leads_queued
\* is written, and in every invocation that ends without a fatal error; a
\* failed send marks the job failed instead.
QueuedEqualsFound ==
    /\ job.leads_queued # None =>
          job.leads_queued = Sent /\ Sent = job.leads_found
    /\ response.statusCode = 200 =>
          /\ response.leads_found = Sent
          /\ response.leads_queued = Sent
          /\ job.leads_queued = Sent
    /\ (opc = "done" /\ errors \subseteq {"run_task"}) => response.statusCode = 200
    /\ (opc = "update_processing" \/ "update_processing" \in errors) =>
          Sent = leads_found /\ queued_count = Sent
    /\ "send" \in errors =>
          job.status = "failed" /\ job.leads_queued = None /\ response.statusCode = 500

QueuedWitness ==
    response.statusCode = 200 /\ job.leads_queued = MaxLeads /\ Sent = MaxLeads

ConnectFailureMarksJobFailed ==
    (opc = "done" /\ "connect" \in errors) =>
        job.exists /\ job.status = "failed" /\ job.error # ""

\* C4 amended: a failed CRM login is fatal (a 500 response carrying the
\* error) and happens before the Job record is written: no Job record
\* exists and nothing is queued.
ConnectFailureLeavesNoJob ==
    "connect" \in errors =>
        /\ opc = "done"
        /\ response.statusCode = 500 /\ response.error # ""
        /\ ~job.exists /\ job.status = ""
        /\ Sent = 0

ConnectFailureWitness == "connect" \in errors /\ opc = "done"

Clamp(x, lo, hi) == IF x < lo THEN lo ELSE IF x > hi THEN hi ELSE x

WorkerCountIsClamped ==
    fnDone =>
        /\ fnRet = Clamp(fnArg \div 500, 2, 10)
        /\ fnRet >= 2 /\ fnRet <= 10
        /\ fnArg = 0 => fnRet = 2
        /\ fnArg = 50 => fnRet = 2
        /\ fnArg = 3000 => fnRet = 6
        /\ fnArg = 10000 => fnRet = 10

WorkerCountWitness == fnDone /\ fnArg = 3000 /\ fnRet = 6

\* C7: a worker finishing with a message deletes it exactly when the
\* pipeline returned a result; otherwise it leaves the queue as it is; and
\* nothing else deletes a message.
DeleteIffResult ==
    [][/\ \A w \in Workers :
            (wpc[w] = "handled" /\ wpc'[w] = "poll") =>
                IF wresult[w] = "result"
                THEN qstate'[wmsg[w]] = "deleted"
                ELSE qstate' = qstate
       /\ \A m \in Msgs :
            (qstate[m] # "deleted" /\ qstate'[m] = "deleted") =>
                \E w \in Workers :
                    wpc[w] = "handled" /\ wmsg[w] = m /\ wresult[w] = "result"]_vars

\* a failed run was finished with and its message is still in flight
DeleteWitness ==
    \E w \in Workers :
        /\ wpc[w] = "poll" /\ wmsg[w] \in Leads
        /\ qstate[wmsg[w]] = "inflight"
        /\ [lead |-> wmsg[w], kind |-> "failed", error |-> "Failed to scrape website"] \in results

\* C8: with the job at processing and no message of it queued or in flight,
\* processed_leads + failed_leads <= leads_queued.
SteadyCountersBounded ==
    (/\ job.status = "processing"
     /\ \A m \in Leads : qstate[m] \notin {"visible", "inflight"}
     /\ WorkersAtRest) =>
        job.processed_leads + job.failed_leads <= job.leads_queued

\* C9: once a result is stored for a lead, no later step writes or changes it.
ResultWrittenOnce ==
    [][\A l \in Leads :
          (\E r \in results : r.lead = l) =>
              {r \in results' : r.lead = l} = {r \in results : r.lead = l}]_vars

\* C10: with the idle timeout of 5 minutes the worker leaves its loop on
\* idleness exactly at the 15th empty poll in a row, only when auto-shutdown
\* is enabled; a received message sets the idle count back to zero.
IdleExitAtFifteen ==
    \A w \in Workers :
        /\ idle_poll_count[w] = emptyRun[w]
        /\ exitReason[w] = "idle" => autoShutdown /\ emptyRun[w] = 15
        /\ (autoShutdown /\ emptyRun[w] >= 15) =>
              wpc[w] = "exited" /\ exitReason[w] = "idle"
        /\ ~autoShutdown => exitReason[w] # "idle"

\* a worker that stored a result and then took a message that is no lead
\* task has left its loop on idleness
IdleExitWitness ==
    \E w \in Workers :
        /\ exitReason[w] = "idle"
        /\ qstate[Malformed] = "inflight"
        /\ results # {}

\* C11 as stated: once the termination flag of a worker is set, the worker
\* takes no new message: the only message it handles afterwards is the one
\* it was handling when the signal came.
NoNewMessageAfterSignal ==
    [][\A w \in Workers : shutdown[w] => ~(wpc[w] # "process" /\ wpc'[w] = "process")]_vars

\* C11 amended: once the flag is set it stays set; the handling of a message
\* is carried through (the worker goes from processing to handled to the top
\* of the loop, never leaves in between); the worker begins no new poll, so
\* the only message it can still take is the one returned by a poll that was
\* already in progress when the signal came; and at the top of the loop it
\* leaves the loop, which is the only place it leaves on a signal.
GracefulShutdown ==
    [][\A w \in Workers :
          /\ shutdown[w] => shutdown'[w]
          /\ (shutdown[w] /\ wpc'[w] # wpc[w]) =>
                <<wpc[w], wpc'[w]>> \in
                    {<<"receiving", "process">>, <<"receiving", "poll">>,
                     <<"receiving", "exited">>, <<"process", "handled">>,
                     <<"handled", "poll">>, <<"poll", "exited">>}
          /\ (shutdown[w] /\ wpc[w] = "poll" /\ wpc'[w] = "exited") =>
                exitReason'[w] = "signal"
          /\ (exitReason[w] # "signal" /\ exitReason'[w] = "signal") =>
                shutdown[w] /\ wpc[w] = "poll" /\ wresult[w] \in {"none", "poll_error"}
          /\ (wpc[w] = "process" /\ wpc'[w] # "process") =>
                wpc'[w] = "handled" /\ wresult'[w] # "none"]_vars

\* a worker signalled while it handled a lead has stored the result, deleted
\* the message and left the loop, with another message waiting
GracefulShutdownWitness ==
    \E w \in Workers :
        /\ exitReason[w] = "signal"
        /\ wmsg[w] \in Leads /\ qstate[wmsg[w]] = "deleted"
        /\ \E m \in Msgs : qstate[m] = "visible"

\* the error texts that hold one of the retryable substrings, in any case
RetryableSamples == {MsgTimeout, MsgTimeoutUpper, MsgNameNotResolved, MsgConnectionReset}

\* C15: the scraper makes at most 3 attempts, attempt i with the page-load
\* timeout 20000 + 10000*i ms; an attempt is followed by another one exactly
\* when it failed with a retryable error text and it was not the third; a
\* loaded page ends the scrape with content, a non-retryable error or the
\* third failure ends it with no content.
ScrapeRetryPolicy ==
    LET n == Len(fnRet.timeouts) IN
    /\ n <= 3 /\ fnRet.attempt = n
    /\ \A i \in 1..n : fnRet.timeouts[i] = 20000 + 10000 * (i - 1)
    /\ \A i \in 1..(n - 1) : fnArg[i] \in RetryableSamples
    /\ ~fnDone => /\ fnRet.result = "running"
                  /\ n < 3
                  /\ \A i \in 1..n : fnArg[i] \in RetryableSamples
    /\ fnDone =>
          /\ n >= 1
          /\ fnArg[n] = PageLoaded => fnRet.result = "content"
          /\ fnArg[n] # PageLoaded =>
                fnRet.result = "none" /\ (n = 3 \/ fnArg[n] \notin RetryableSamples)
          /\ fnArg[1] \in {MsgTimedOut, MsgAborted, MsgNotFound} => n = 1

ScrapeRetryWitness ==
    /\ fnDone /\ fnRet.result = "none" /\ Len(fnRet.timeouts) = 3
    /\ fnArg[1] = MsgTimeoutUpper /\ fnArg[3] = MsgConnectionReset

CallCount(calls, name) == Cardinality({i \in DOMAIN calls : calls[i] = name})

\* C13: a lead whose website is absent or empty gets a failed result with
\* the reason "No website URL provided" and one more failed lead on the job
\* (the stores answering), and its run calls neither the cache, the scraper,
\* the AI nor the CRM and returns nothing.
NoWebsiteNeverScrapes ==
    (fnDone /\ fnArg.website \in {Nil, Some(<<>>)}) =>
        /\ Range(fnRet.calls) \subseteq {"put_error", "count_failed"}
        /\ fnRet.calls[1] = "put_error"
        /\ fnRet.update = {} /\ sfCompleted = {}
        /\ fnRet.returned = Nil
        /\ wresult[1] # "result"
        /\ job.processed_leads = 0
        /\ fnArg.env.errPutOk =>
              /\ results = {[lead |-> 1, kind |-> "failed",
                             error |-> "No website URL provided"]}
              /\ fnRet.calls = <<"put_error", "count_failed">>
              /\ fnArg.env.counterOk => job.failed_leads = 1

NoWebsiteWitness ==
    /\ fnDone /\ fnArg.website = Some(<<>>)
    /\ job.failed_leads = 1
    /\ \E r \in results : r.error = "No website URL provided"
    /\ fnArg.env.scrapeOk /\ cache[1] = "stale"

\* C17: a write-back that was requested and failed does not fail the lead and
\* is not tried again: the success result is stored, processed_leads (not
\* failed_leads) is incremented, the run returns a result, and the worker
\* deletes the message.
WriteBackFailureKeepsLead ==
    (fnDone /\ parameters.update_salesforce /\ ~fnArg.env.sfOk
            /\ "sf_update" \in Range(fnRet.calls)) =>
        /\ CallCount(fnRet.calls, "sf_update") = 1
        /\ fnRet.outcome = "success" /\ fnRet.returned # Nil
        /\ Cardinality(results) = 1
        /\ \A r \in results : r.lead = 1 /\ r.kind = "success"
        /\ job.failed_leads = 0
        /\ fnArg.env.counterOk => job.processed_leads = 1
        /\ 1 \notin sfCompleted
        /\ wpc[1] = "handled" => wresult[1] = "result" /\ qstate[1] = "inflight"
        /\ wpc[1] = "poll" => qstate[1] = "deleted"

WriteBackFailureWitness ==
    /\ fnDone /\ parameters.update_salesforce /\ ~fnArg.env.sfOk
    /\ job.processed_leads = 1
    /\ wpc[1] = "poll" /\ qstate[1] = "deleted"

\* C18: after a run with write-back requested, the result stored for the
\* lead carries the outcome of the write-back: the error text when it
\* failed, the flag when it went through.
StoredResultAnnotated ==
    (fnDone /\ fnRet.outcome = "success" /\ parameters.update_salesforce) =>
        \E r \in results :
            /\ r.lead = 1
            /\ IF fnArg.env.sfOk
               THEN "salesforce_updated" \in DOMAIN r
               ELSE "salesforce_error" \in DOMAIN r

\* the confidence each AI answer carries, in tenths
AnswerConfidence(info) ==
    CASE info = InfoJane -> 9 [] info = InfoAddress -> 10 [] OTHER -> 0

\* C20: a run on a lead with a website, with content from the scrape or the
\* cache and an AI answer, the stores answering, leaves exactly one result,
\* of the success kind and with the answer's confidence; with update_salesforce
\* it issues exactly one CRM update, holding the valid extracted name and
\* address fields and Enrichment_Completed__c = true; without, none.
OneRunOneResult ==
    (/\ fnDone /\ fnArg.website = Some(TxtUrl)
     /\ (CacheHit(cache[1], fnArg.env) \/ fnArg.env.scrapeOk)
     /\ fnArg.env.extractOk /\ fnArg.env.putOk) =>
        /\ results = {[lead |-> 1, kind |-> "success", error |-> "",
                       confidence_score |-> AnswerConfidence(fnArg.info)]}
        /\ CallCount(fnRet.calls, "put_result") = 1
        /\ CallCount(fnRet.calls, "put_error") = 0
        /\ IF parameters.update_salesforce
           THEN /\ CallCount(fnRet.calls, "sf_update") = 1
                /\ <<"Enrichment_Completed__c", TRUE>> \in fnRet.update
                /\ fnArg.info = InfoJane =>
                      /\ {<<"FirstName", TxtJane>>, <<"LastName", TxtDoe>>,
                          <<"City", TxtCity>>, <<"State", TxtState>>} \subseteq fnRet.update
                      /\ \A u \in fnRet.update :
                            u[1] \notin {"Street", "PostalCode", "Country"}
                /\ fnArg.info = InfoNothing =>
                      \A u \in fnRet.update :
                          u[1] \in {"Enrichment_Confidence__c", "Enrichment_Source__c",
                                    "Enrichment_Completed__c"}
                /\ fnArg.env.sfOk <=> 1 \in sfCompleted
           ELSE /\ CallCount(fnRet.calls, "sf_update") = 0
                /\ fnRet.update = {}
                /\ sfCompleted = {}

OneRunWitness ==
    /\ fnDone /\ fnArg.info = InfoJane /\ parameters.update_salesforce
    /\ 1 \in sfCompleted
    /\ \E r \in results : r.kind = "success" /\ r.confidence_score = 9
    /\ <<"FirstName", TxtJane>> \in fnRet.update

\* C14: an entry written at time T is used, and no scrape issued, at every
\* lookup time t with t - T < 24h (T + 23h59m included), and is stale, the
\* lookup returning nothing and a scrape being issued, at every t with
\* t - T >= 24h (T + 24h01m included).
CacheValidFor24Hours ==
    (fnDone /\ fnArg.getOk) =>
        /\ fnArg.age < 24 * 60 =>
              /\ fnRet.hit /\ "scrape" \notin Range(fnRet.calls)
              /\ fnRet.item = Some([cached_at |-> IsoFormat(fnArg.written)])
        /\ fnArg.age >= 24 * 60 =>
              ~fnRet.hit /\ CallCount(fnRet.calls, "scrape") = 1
        /\ fnArg.age = 23 * 60 + 59 => fnRet.hit
        /\ fnArg.age = 24 * 60 + 1 => ~fnRet.hit

CacheValidWitness ==
    /\ fnDone /\ fnArg.getOk /\ fnArg.age = 24 * 60 + 1 /\ fnArg.written = 24 * 60 - 1
    /\ ~fnRet.hit /\ "scrape" \in Range(fnRet.calls) /\ cache[1] = "fresh"

\* C12: the batch entry point goes through every record of the batch, a
\* record whose parse or pipeline raised included; it returns, with status
\* 200, only after the last record; and the counts it returns add up to the
\* number of records: processed the runs that returned a result, failed the
\* others.
BatchCountsAddUp ==
    /\ fnRet.processed + fnRet.failed = fnRet.idx
    /\ Len(fnRet.hows) = fnRet.idx
    /\ fnRet.processed = Cardinality({i \in DOMAIN fnRet.hows : fnRet.hows[i] = "result"})
    /\ \A i \in DOMAIN fnRet.hows : fnArg[i].lead = Malformed => fnRet.hows[i] = "raised"
    /\ fnRet.statusCode \in {0, 200}
    /\ fnDone <=> fnRet.statusCode = 200
    /\ fnDone => /\ fnRet.idx = Len(fnArg)
                 /\ fnRet.processed + fnRet.failed = Len(fnArg)

\* a batch whose first record raised and whose last record was processed
BatchWitness ==
    /\ fnDone /\ Len(fnArg) = MaxBatch
    /\ fnRet.hows[1] = "raised" /\ fnRet.hows[MaxBatch] = "result"
    /\ fnRet.processed >= 1 /\ fnRet.failed >= 1

\* runs of the workers that wrote their result and have not yet counted it
Uncounted(how) == Cardinality({w \in Workers : wpc[w] = "counting" /\ wresult[w] = how})

\* C19: with several workers running pipelines for the same job at the same
\* time, processed_leads is the number of runs that ended with a success
\* result and failed_leads the number that ended with a failure result, in
\* every interleaving of their calls (the runs that have not yet made their
\* update_item call left aside).
NoLostCounterUpdate ==
    /\ job.processed_leads + Uncounted("result") = fnRet.ok
    /\ job.failed_leads + Uncounted("no_result") = fnRet.failed

\* both workers are between their result and their count, one with a success
\* and one with a failure, after an earlier failure was counted
PoolWitness ==
    /\ wpc[1] = "counting" /\ wpc[2] = "counting"
    /\ wresult[1] = "result" /\ wresult[2] = "no_result"
    /\ job.failed_leads >= 1

\* C21: each of the three invocation shapes is accepted; a base64 string is
\* decoded and the job is started with the decoded limit and
\* update_salesforce.
EveryShapeAccepted ==
    (opc # "invoked" /\ event.shape \in {"scheduled", "direct", "base64"})
        => /\ "event" \notin errors
           /\ parameters = EventParams(DecodeEvent(event))

\* C22: a non-scheduled invocation that supplies no limit runs the CRM
\* query without a LIMIT clause.
NoLimitMeansUnbounded ==
    (opc \notin {"invoked"} /\ "event" \notin errors
        /\ event.shape = "direct" /\ event.limit = None)
        => QueryLimit(parameters) = None

\* the values of FieldValues and of the base answers that the polling
\* variant's rule calls valid, and the fields a value goes to
ValidValues ==
    {Some(TxtJane), Some(TxtDoe), Some(TxtStreet), Some(TxtCity), Some(TxtState),
     Some(TxtZip), Some(TxtCountry), Num(90001)}
StdField ==
    [first_name |-> "FirstName", last_name |-> "LastName", street |-> "Street",
     city |-> "City", state |-> "State", postal_code |-> "PostalCode", country |-> "Country"]
EnrField ==
    [first_name |-> "Enriched_First_Name__c", last_name |-> "Enriched_Last_Name__c",
     street |-> "Enriched_Street__c", city |-> "Enriched_City__c",
     state |-> "Enriched_State__c", postal_code |-> "Enriched_Postal_Code__c",
     country |-> "Enriched_Country__c"]

\* C23: in the polling variant, for each of the seven extracted values the
\* update map holds the standard field and the Enriched_* field, both with
\* the value, exactly when the value is valid (not empty, not zero, and as a
\* text not one of the sentinels after lowercasing and trimming); otherwise
\* it holds neither field.
ValidityFilter ==
    (fnDone /\ fnArg.variant = "polling") =>
        \A f \in InfoFields :
            LET v == fnArg.info[f]
            IN IF v \in ValidValues
               THEN {<<StdField[f], Val(v)>>, <<EnrField[f], Val(v)>>} \subseteq fnRet.fields
               ELSE \A p \in fnRet.fields : p[1] \notin {StdField[f], EnrField[f]}

\* " N/A " as first name is left out while the postal code goes to both fields
ValidityFilterWitness ==
    /\ fnDone /\ fnArg.variant = "polling"
    /\ fnArg.info.first_name = Some(TxtNA)
    /\ \A p \in fnRet.fields : p[1] # "FirstName"
    /\ <<"PostalCode", TxtZip>> \in fnRet.fields
    /\ <<"Enriched_Postal_Code__c", TxtZip>> \in fnRet.fields

\* the address values a variant's rule calls valid, in the fixed order
ValidAddressParts(variant, info) ==
    LET all == <<info.street, info.city, info.state, info.postal_code, info.country>>
        Ok(v) == IF variant = "polling" THEN v \in ValidValues
                 ELSE v \notin {Nil, Some(<<>>), Num(0)}
        valid == SelectSeq(all, Ok)
    IN [i \in 1..Len(valid) |-> Val(valid[i])]

\* C24: the write-back sets the full-address field exactly when at least one
\* address component is valid, and then to the valid components among street,
\* city, state, postal code and country, in that order, joined with ", ".
FullAddressOfValidParts ==
    fnDone =>
        LET parts == ValidAddressParts(fnArg.variant, fnArg.info)
            full == {p \in fnRet.update : p[1] = "Enriched_Full_Address__c"}
        IN IF parts = <<>> THEN full = {}
           ELSE full = {<<"Enriched_Full_Address__c",
                           JoinParts([i \in DOMAIN parts |->
                               IF IsNumber(parts[i]) THEN TxtZip ELSE parts[i]])>>}

\* C29: print_progress_bar renders a bar of 50 characters of which
\* floor(50 * done / total) are filled, and the percentage
\* floor(100 * done / total), when total > 0; with total = 0 it renders 0%
\* and no filled character.
ProgressBarAsFloors ==
    (fnDone /\ fnArg.fn = "bar") =>
        /\ fnRet.filled + fnRet.empty = 50
        /\ IF fnArg.total > 0
           THEN /\ fnRet.filled = (50 * fnArg.current) \div fnArg.total
                /\ fnRet.percent = (100 * fnArg.current) \div fnArg.total
           ELSE fnRet.filled = 0 /\ fnRet.percent = 0

\* C30: the success rate is floor(100 * successful / (successful + failed)),
\* and 0 when both counts are 0; the estimated-time-remaining line is printed
\* only when successful > 0 and messages remain.
SuccessRateAsFloor ==
    (fnDone /\ fnArg.fn = "stats") =>
        /\ fnRet.success_rate =
               IF fnArg.successful + fnArg.failed = 0 THEN 0
               ELSE (100 * fnArg.successful) \div (fnArg.successful + fnArg.failed)
        /\ fnRet.eta_line => (fnArg.successful > 0 /\ fnArg.total_remaining > 0)

\* C25: no failure of a dashboard query leaves display_dashboard; the render
\* goes on with zeros and empties.
DashboardAbsorbsFailures == fnDone => ~fnRet.raised

NoFault == [scan |-> FALSE, queue |-> FALSE, workers |-> FALSE, logs |-> FALSE,
            results |-> FALSE]

\* C26: with the job id of a job of the Job store the dashboard renders that
\* job's panel; without a job id it renders the panel of the newest job.
SelectedJobRendered ==
    (fnDone /\ fnArg.faults = NoFault) =>
        /\ (fnArg.job_id \in fnArg.table) => fnRet.panel = fnArg.job_id
        /\ (fnArg.job_id = None /\ fnArg.table # {})
               => fnRet.panel = NewestFirst(fnArg.table)[1]

\* C27: with more than one recent job and no job id given, the jobs after
\* the first, three at most, are listed below the panel; with a job id given
\* none is listed.
OtherJobsListed ==
    (fnDone /\ fnArg.faults = NoFault) =>
        LET recent == NewestFirst(fnArg.table)
        IN IF fnArg.job_id = None /\ Len(recent) > 1
           THEN fnRet.others = SubSeq(recent, 2, Min(4, Len(recent)))
           ELSE fnRet.others = <<>>

\* the calls of the dashboard that read
ReadCalls ==
    {"jobs.scan", "results.query", "sqs.get_queue_attributes", "ecs.list_tasks",
     "ecs.describe_tasks", "logs.filter_log_events"}

\* C28: a render makes read calls only, and no step of the dashboard changes
\* the Job store, the Results store, the cache, the queue or the workers.
DashboardOnlyReads ==
    [][/\ UNCHANGED <<job, results, cache, sfCompleted, qstate, redeliveries,
                      workers_started, wpc, wmsg>>
       /\ fnDone' => Range(fnRet'.calls) \subseteq ReadCalls]_vars

\* a panel was rendered with every query made, beside a job in progress
DashboardWitness ==
    /\ fnDone /\ fnRet.view = "panel" /\ fnRet.results_count = 1
    /\ Len(fnRet.calls) = 7
    /\ job.status = "processing" /\ qstate[2] = "visible"

\* process_lead, lines 98-143: the steps of a run in the order of the code
StepOrder ==
    <<"cache_get", "scrape", "cache_put", "extract", "put_result", "sf_update",
      "count_processed">>

\* every a in the calls comes before every b
ComesBefore(calls, a, b) ==
    \A i, j \in DOMAIN calls : (calls[i] = a /\ calls[j] = b) => i < j

\* C31: within one pipeline run the steps that happen come in the order
\* cache check, scrape, AI extraction, persistence, CRM write-back, job counter
\* update, and the polling worker deletes the message only after the counter
\* update of the run was made.
StepsInOrder ==
    /\ fnDone =>
        \A i, j \in DOMAIN StepOrder :
            i < j => ComesBefore(fnRet.calls, StepOrder[i], StepOrder[j])
    /\ qstate[1] = "deleted" =>
        /\ fnDone
        /\ fnRet.calls # <<>>
        /\ fnRet.calls[Len(fnRet.calls)] = "count_processed"

\* a run that missed the cache made every step, and the message was deleted
StepsInOrderWitness ==
    /\ fnDone
    /\ fnRet.calls = StepOrder
    /\ qstate[1] = "deleted"

\* send_message raised in the send loop of this invocation
SendFailed == "send" \in errors

\* C32: when enqueueing fails partway through the lead list the job is marked
\* failed with the error, the failing step takes no message back from the
\* queue, the messages of the job are from then on exactly those sent before
\* the failure, no further lead is sent and no worker is requested.
EnqueueFailureKeepsSent ==
    [][SendFailed' =>
        /\ job'.status = "failed" /\ job'.error = "send_message failed"
        /\ response' = ErrorResponse("send_message failed")
        /\ ~SendFailed => qstate' = qstate
        /\ \A m \in Leads : (qstate'[m] # "absent") <=> (m <= sendIdx')
        /\ sendIdx' = sendIdx /\ queued_count' = sendIdx'
        /\ sendIdx' < leads_found'
        /\ requested' = None /\ workers_started' = 0
        /\ wpc'[2] = "off"]_vars

\* the second send failed: one message is on the queue, the job is over
EnqueueFailureWitness ==
    /\ SendFailed
    /\ sendIdx = 1 /\ leads_found = 2
    /\ qstate[1] # "absent" /\ qstate[2] = "absent"
    /\ opc = "done"

\* C33: an error raised by the queue poll itself does not end the polling
\* worker's loop and leaves the idle-poll counter and the queue as they were:
\* the worker is back at the top of the loop, from where it polls again unless
\* shutdown was requested, in which case it leaves on the signal.
PollErrorKeepsLoop ==
    [][\A w \in Workers :
          /\ (wresult[w] # "poll_error" /\ wresult'[w] = "poll_error") =>
                /\ wpc[w] = "receiving" /\ wpc'[w] = "poll"
                /\ idle_poll_count'[w] = idle_poll_count[w]
                /\ exitReason'[w] = "none"
                /\ qstate' = qstate
          /\ (wresult[w] = "poll_error" /\ wpc'[w] # wpc[w]) =>
                IF shutdown[w]
                THEN wpc'[w] = "exited" /\ exitReason'[w] = "signal"
                ELSE wpc'[w] = "receiving" /\ idle_poll_count'[w] = idle_poll_count[w]]_vars

\* a poll raised after some empty polls, with the queue not empty
PollErrorWitness ==
    /\ wresult[1] = "poll_error"
    /\ idle_poll_count[1] > 0
    /\ ~shutdown[1]
    /\ \E m \in Msgs : qstate[m] = "visible"

\* ---------------------------------------------------- extract_information
\* The content put into the AI prompt.  A text is a sequence of pieces; the
\* piece [src, len] is the first len characters of the source text src (the
\* main page, an additional page, or the separator written before a page).

Piece(src, n) == [src |-> src, len |-> n]

RECURSIVE TextLen(_)
TextLen(t) == IF t = <<>> THEN 0 ELSE Head(t).len + TextLen(Tail(t))

\* the k-th character of a text: its source and its place in the source
RECURSIVE CharAt(_, _)
CharAt(t, k) ==
    IF k <= Head(t).len THEN <<Head(t).src, k>>
    ELSE CharAt(Tail(t), k - Head(t).len)

\* t[:n]
RECURSIVE Slice(_, _)
Slice(t, n) ==
    IF t = <<>> \/ n = 0 THEN <<>>
    ELSE IF Head(t).len <= n THEN <<Head(t)>> \o Slice(Tail(t), n - Head(t).len)
    ELSE <<Piece(Head(t).src, n)>>

\* a + b
Concat(a, b) == a \o b

\* "\n\n"
Separator(i) == <<Piece(<<"sep", i>>, 2)>>

\* lines 258-260: the main content, then every additional page after a
\* separator
RECURSIVE AppendPages(_, _, _)
AppendPages(all_content, pages, i) ==
    IF i > Len(pages) THEN all_content
    ELSE AppendPages(Concat(all_content,
                            Concat(Separator(i), <<Piece(<<"page", i>>, pages[i])>>)),
                     pages, i + 1)

MainContent(scraped_data) == <<Piece(<<"main", 0>>, scraped_data.main_content)>>

AllContent(scraped_data) ==
    AppendPages(MainContent(scraped_data), scraped_data.additional_pages, 1)

\* the main content cut before the pages are appended
PromptContentMainCut(scraped_data) ==
    AppendPages(Slice(MainContent(scraped_data), PromptLimit),
                scraped_data.additional_pages, 1)

\* line 271: {all_content[:3000]}
PromptContent(scraped_data) == Slice(AllContent(scraped_data), PromptLimit)

\* the lengths of the scraped texts followed
MainLengths == {0, 1, PromptLimit - 1, PromptLimit, PromptLimit + 1, 2 * PromptLimit}
PageLengths == {0, 1, PromptLimit}

ScrapedData ==
    UNION {[main_content : MainLengths, additional_pages : [1..n -> PageLengths]]
              : n \in 0..MaxPages}

\* extract_information, lines 254-271: the prompt is built from the scrape
BuildPrompt ==
    /\ ~fnDone
    /\ fnRet' = PromptContent(fnArg)
    /\ fnDone' = TRUE
    /\ UNCHANGED <<fnArg, orchVars, storeVars, queueVars, workerVars>>

\* The prompt alone: a scrape of a main page and up to MaxPages additional
\* pages, of lengths around the limit.
InitPrompt ==
    /\ InitOrchestrator /\ InitStores /\ InitWorkers
    /\ event = [shape |-> "scheduled", limit |-> None, update_salesforce |-> FALSE]
    /\ crmCount = 0
    /\ autoShutdown = TRUE
    /\ idleTimeoutMinutes = DefaultIdleTimeoutMinutes
    /\ wpc = [w \in Workers |-> "off"]
    /\ fnArg \in ScrapedData
    /\ fnRet = <<>>
    /\ fnDone = FALSE

SpecPrompt == InitPrompt /\ [][BuildPrompt]_vars

\* the same characters in the same order
SameText(a, b) ==
    /\ TextLen(a) = TextLen(b)
    /\ \A k \in 1..TextLen(a) : CharAt(a, k) = CharAt(b, k)

\* C34 as stated: the prompt content is the first 3000 characters of the main
\* content followed by the whole text of every additional page.
MainAloneTruncated ==
    fnDone => SameText(fnRet, PromptContentMainCut(fnArg))

\* C34: the prompt content is the first 3000 characters of the text made of the main content
\* and every additional page appended after a separator: it is never longer
\* than 3000 characters, and additional-page text is in it only as far as the
\* main content leaves room.
WholeContentTruncated ==
    fnDone =>
        /\ TextLen(fnRet) = Min(PromptLimit, TextLen(AllContent(fnArg)))
        /\ \A k \in 1..TextLen(fnRet) : CharAt(fnRet, k) = CharAt(AllContent(fnArg), k)
        /\ \A k \in 1..TextLen(fnRet) :
              CharAt(fnRet, k)[1][1] = "main" <=> k <= fnArg.main_content

\* a main page of the limit's length and a page after it: no character of
\* the page is in the prompt
WholeContentWitness ==
    /\ fnDone
    /\ fnArg.main_content >= PromptLimit
    /\ \E i \in DOMAIN fnArg.additional_pages : fnArg.additional_pages[i] > 0
    /\ TextLen(fnRet) = PromptLimit
    /\ \A k \in 1..TextLen(fnRet) : CharAt(fnRet, k)[1][1] = "main"

\* the step of a pipeline run in SpecPipeline
RunStep == ~fnDone /\ fnDone'

\* the run wrote, or tried to write, the cache entry
CachePut == "cache_put" \in Range(fnRet'.calls)

\* C35 as stated: the run writes the cache only when the lead had no entry or
\* a stale entry and the scrape succeeded; otherwise the entry is unchanged,
\* and a failed cache write does not fail the lead.
CacheWrittenOnlyAfterMiss ==
    [][RunStep =>
        /\ CachePut => (cache[1] \in {"none", "stale"} /\ fnArg.env.scrapeOk)
        /\ ~CachePut => cache'[1] = cache[1]]_vars

\* C35: the run writes the cache exactly when the lookup returned nothing
\* (no entry, a stale entry, or a lookup that raised) and the scrape that
\* followed succeeded; a hit, a failed scrape and a failed cache write leave
\* the entry as it was, no run deletes an entry, and a failed cache write
\* does not fail the lead.
CacheWrittenOnlyAfterEmptyLookup ==
    [][RunStep =>
        LET env == fnArg.env
            lookedUp == "cache_get" \in Range(fnRet'.calls)
            hit == cache[1] = "fresh" /\ env.cacheReadOk
        IN /\ CachePut <=> (lookedUp /\ ~hit /\ env.scrapeOk)
           /\ cache'[1] = IF CachePut /\ env.cacheWriteOk THEN "fresh" ELSE cache[1]
           /\ (lookedUp /\ hit) => "scrape" \notin Range(fnRet'.calls)
           /\ (CachePut /\ ~env.cacheWriteOk /\ env.extractOk /\ env.putOk) =>
                 /\ fnRet'.outcome = "success"
                 /\ job'.failed_leads = job.failed_leads]_vars

\* a run on a stale entry scraped and wrote the cache; the write failed and
\* the lead was processed
CacheWriteWitness ==
    /\ fnDone
    /\ "cache_put" \in Range(fnRet.calls)
    /\ ~fnArg.env.cacheWriteOk
    /\ cache[1] = "stale"
    /\ fnRet.outcome = "success"

\* a step that is not the orchestrator's: a worker's or the queue's
WorkerStep == opc' = opc /\ sendIdx' = sendIdx

\* C36: a worker step changes nothing of the Job record but processed_leads
\* and failed_leads, which it only adds to: status, leads_found, leads_queued,
\* workers_started and error stay as they are; and a job at processing or at
\* failed keeps that status in every later step, of any process.
WorkersOnlyCount ==
    [][/\ WorkerStep =>
            /\ job'.status = job.status
            /\ job'.leads_found = job.leads_found
            /\ job'.leads_queued = job.leads_queued
            /\ job'.workers_started = job.workers_started
            /\ job'.error = job.error
            /\ job'.processed_leads >= job.processed_leads
            /\ job'.failed_leads >= job.failed_leads
       /\ job.status \in {"processing", "failed"} => job'.status = job.status]_vars

\* every lead of the job was processed and its message deleted: the job is
\* still at processing
WorkersOnlyCountWitness ==
    /\ job.status = "processing"
    /\ job.leads_queued = MaxLeads
    /\ job.processed_leads = MaxLeads
    /\ \A m \in Leads : qstate[m] = "deleted"
    /\ WorkersAtRest

\* the Results store and the Job store accept every write of the run
StorageAnswers == fnArg.env.putOk /\ fnArg.env.errPutOk /\ fnArg.env.counterOk

\* C37: a process_lead run, the storage calls succeeding, writes exactly
\* one result record and adds exactly one to exactly one of processed_leads
\* and failed_leads: to processed_leads exactly when it returns a result (the
\* record is then of the success kind), to failed_leads exactly when it
\* returns none (the record is then an error record).
OneResultOneCount ==
    (fnDone /\ StorageAnswers) =>
        /\ CallCount(fnRet.calls, "put_result") + CallCount(fnRet.calls, "put_error") = 1
        /\ Cardinality(results) = 1
        /\ CallCount(fnRet.calls, "count_processed")
             + CallCount(fnRet.calls, "count_failed") = 1
        /\ job.processed_leads + job.failed_leads = 1
        /\ job.processed_leads = 1 <=> fnRet.returned # Nil
        /\ job.failed_leads = 1 <=> fnRet.returned = Nil
        /\ \A r \in results :
              /\ r.lead = 1
              /\ r.kind = "success" <=> job.processed_leads = 1
              /\ r.kind = "failed" <=> job.failed_leads = 1

\* a run whose AI extraction failed stored the error and counted the lead
\* as failed
OneResultOneCountWitness ==
    /\ fnDone /\ StorageAnswers
    /\ fnRet.outcome = "extract_failed"
    /\ job.failed_leads = 1 /\ job.processed_leads = 0
    /\ fnRet.returned = Nil

\* ------------------------------------------------------------ later jobs
\* The lead query of a job started after a pipeline run.  The CRM holds the
\* leads of Leads, all with a website and created by the queried user; a
\* lead of a higher number was created later.

\* ORDER BY CreatedDate DESC
ByCreatedDateDesc == [i \in 1..MaxLeads |-> MaxLeads + 1 - i]

\* the query without its test of Enrichment_Completed__c
fetch_all_leads(params, completed) ==
    SubSeq(ByCreatedDateDesc, 1, FetchCount(params, MaxLeads))

\* fetch_salesforce_leads, lines 208-230: the leads not marked completed,
\* newest first, cut at the LIMIT
fetch_salesforce_leads(params, completed) ==
    LET matching == SelectSeq(ByCreatedDateDesc, LAMBDA l : l \notin completed)
    IN SubSeq(matching, 1, FetchCount(params, Len(matching)))

\* the payloads of a later invocation
LaterEvents == {ev \in Events : ~IsString(ev)}

\* lambda_handler and start_enrichment_job (lines 95-205) of a later
\* invocation, from the payload to the response: the query raises, or the
\* job runs through, every fetched lead is sent and workers are requested
LaterJob ==
    /\ fnDone /\ wpc[1] = "poll" /\ opc = "done"
    /\ \E ev \in LaterEvents : \E queryOk, raised \in BOOLEAN :
        LET params == EventParams(ev)
            leads == fetch_salesforce_leads(params, sfCompleted)
            n == Len(leads)
            ws == EcsStarted(raised, RequestedWorkers(n))
        IN /\ event' = ev
           /\ parameters' = params
           /\ IF queryOk
              THEN /\ leads_found' = n /\ sendIdx' = n /\ queued_count' = n
                   /\ requested' = RequestedWorkers(n)
                   /\ workers_started' = ws
                   /\ job' = ProcessingJob([SetStatus(NoJob, "queuing_leads")
                                               EXCEPT !.leads_found = n], n, ws)
                   /\ response' = SuccessResponse(n, n, ws)
                   /\ errors' = IF raised THEN {"run_task"} ELSE {}
                   /\ qstate' = [m \in Msgs |-> IF m \in Range(leads) THEN "visible"
                                                 ELSE qstate[m]]
              ELSE /\ leads_found' = 0 /\ sendIdx' = 0 /\ queued_count' = 0
                   /\ requested' = None
                   /\ workers_started' = 0
                   /\ job' = FailedJob(SetStatus(NoJob, "fetching_leads"), "query failed")
                   /\ response' = ErrorResponse("query failed")
                   /\ errors' = {"query"}
                   /\ UNCHANGED qstate
    /\ UNCHANGED opc
    /\ UNCHANGED <<crmCount, results, cache, sfCompleted, redeliveries>>
    /\ UNCHANGED <<workerVars, fnVars>>

\* the scrape, the AI and the CRM may fail; the stores answer
RequeryEnvs ==
    {e \in PipelineEnvs : e.putOk /\ e.errPutOk /\ e.cacheReadOk /\ e.cacheWriteOk
                          /\ e.counterOk}

\* One pipeline run and the jobs after it: worker 1 holds the message of
\* lead 1, the oldest lead; the leads created after it are completed or not;
\* once the run is over, jobs are started with every payload.
InitRequery ==
    /\ crmCount = MaxLeads
    /\ leads_found = 1 /\ sendIdx = 1 /\ queued_count = 1
    /\ requested = RequestedWorkers(1)
    /\ workers_started = 1
    /\ job = ProcessingJob([SetStatus(NoJob, "queuing_leads") EXCEPT !.leads_found = 1], 1, 1)
    /\ response = SuccessResponse(1, 1, 1)
    /\ qstate = [m \in Msgs |-> IF m = 1 THEN "inflight" ELSE "absent"]
    /\ \E us \in BOOLEAN :
        /\ event = [shape |-> "direct", limit |-> None, update_salesforce |-> us]
        /\ parameters = EventParams(event)
    /\ opc = "done"
    /\ errors = {}
    /\ results = {}
    /\ cache = [l \in Leads |-> "none"]
    /\ sfCompleted \in SUBSET (Leads \ {1})
    /\ redeliveries = 0
    /\ wmsg = [w \in Workers |-> IF w = 1 THEN 1 ELSE None]
    /\ idle_poll_count = [w \in Workers |-> 0]
    /\ shutdown = [w \in Workers |-> FALSE]
    /\ exitReason = [w \in Workers |-> "none"]
    /\ emptyRun = [w \in Workers |-> 0]
    /\ wresult = [w \in Workers |-> "none"]
    /\ autoShutdown = TRUE
    /\ idleTimeoutMinutes = DefaultIdleTimeoutMinutes
    /\ wpc = [w \in Workers |-> IF w = 1 THEN "process" ELSE "off"]
    /\ fnArg \in [website : Websites, info : Infos, env : RequeryEnvs]
    /\ fnRet = [outcome |-> "", returned |-> Nil, calls |-> <<>>, update |-> {}]
    /\ fnDone = FALSE

NextRequery == RunPipeline(1) \/ FinishMessage(1) \/ LaterJob

SpecRequery == InitRequery /\ [][NextRequery]_vars

\* a job is started after the run on lead 1 (every other step is excluded)
LaterStep == fnDone /\ wpc[1] = "poll"

\* the place of lead 1, the oldest, among the matching leads is within the
\* LIMIT of the job's query
WithinLimit(params, completed) ==
    QueryLimit(params) = None \/ Cardinality(Leads \ completed) <= QueryLimit(params)

\* the run issued the CRM update and the CRM accepted it
WroteBack == "sf_update" \in Range(fnRet.calls) /\ fnArg.env.sfOk

\* C38 as stated: a successful write-back sets Enrichment_Completed__c, and
\* the lead is fetched by no later job; a lead whose run failed or ran without
\* write-back is fetched and enqueued again by every later job.
RefetchedByEveryLaterJob ==
    [][/\ RunStep => (WroteBack' <=> 1 \in sfCompleted')
       /\ (LaterStep /\ response'.statusCode = 200) =>
            IF 1 \in sfCompleted THEN qstate'[1] = qstate[1]
            ELSE qstate'[1] = "visible"]_vars

\* C38: a successful write-back issues an update that sets
\* Enrichment_Completed__c = true, whatever the extracted values, and no later
\* job fetches the lead; a lead whose run failed, ran without write-back or
\* whose write-back failed keeps matching the query, and a later job that ends
\* with a success response has fetched and enqueued it when the lead is within
\* the LIMIT of that job's query, and otherwise has not.
CompletionEndsRefetch ==
    [][/\ RunStep =>
            /\ WroteBack' <=> 1 \in sfCompleted'
            /\ "sf_update" \in Range(fnRet'.calls) <=>
                  (fnRet'.outcome = "success" /\ parameters.update_salesforce)
            /\ "sf_update" \in Range(fnRet'.calls) =>
                  <<"Enrichment_Completed__c", TRUE>> \in fnRet'.update
       /\ LaterStep =>
            /\ sfCompleted' = sfCompleted
            /\ 1 \in sfCompleted => qstate'[1] = qstate[1]
            /\ (1 \notin sfCompleted /\ response'.statusCode = 200) =>
                  IF WithinLimit(parameters', sfCompleted)
                  THEN qstate'[1] = "visible"
                  ELSE qstate'[1] = qstate[1]]_vars

\* the write-back of an answer without a valid value went through: a later
\* job has enqueued the newer lead and not this one
CompletionWitness ==
    /\ fnDone /\ WroteBack
    /\ fnArg.info = InfoNothing
    /\ 1 \in sfCompleted
    /\ qstate[1] = "deleted"
    /\ qstate[MaxLeads] = "visible"
    /\ job.leads_found = 1

\* ------------------------------------------------- the worker, scheduled
\* The polling worker with auto-shutdown enabled and no signal, under the
\* scheduling of its process: main is one sequential loop, so each of its
\* steps is taken once it can be (every pipeline run terminates), and a
\* poll that could return is not answered by an error for ever (polls keep
\* completing).  The queue makes a message deliverable again at most
\* MaxRedeliveries times.

InitWorkerFair == InitWorker /\ autoShutdown

NextWorkerFair ==
    \/ \E m \in Msgs : VisibilityTimeout(m)
    \/ BeginPoll(1)
    \/ \E m \in Msgs : Receive(1, m)
    \/ EmptyPoll(1) \/ PollError(1)
    \/ ProcessMessage(1, ScrapeFaults)
    \/ FinishMessage(1)

WorkerFairness ==
    /\ WF_vars(BeginPoll(1))
    /\ SF_vars(\E m \in Msgs : Receive(1, m))
    /\ SF_vars(EmptyPoll(1))
    /\ WF_vars(ProcessMessage(1, ScrapeFaults))
    /\ WF_vars(FinishMessage(1))

SpecWorkerFair == InitWorkerFair /\ [][NextWorkerFair]_vars /\ WorkerFairness

\* every message was processed and deleted: the queue is and stays empty
QueueDrained == \A m \in Msgs : qstate[m] \in {"absent", "deleted"}

ExitedOnIdle == wpc[1] = "exited" /\ exitReason[1] = "idle"

\* C39: with auto-shutdown enabled, once every message is processed and
\* deleted the worker eventually leaves its loop on idleness, provided runs
\* terminate and polls keep completing; it leaves after exactly
\* MAX_IDLE_POLLS empty polls in a row, and every message delivered to it
\* takes the idle count back to 0, so it does not leave on idleness while
\* messages keep being delivered.
IdleTermination ==
    /\ QueueDrained ~> ExitedOnIdle
    /\ [](ExitedOnIdle =>
            /\ emptyRun[1] = MaxIdlePolls(idleTimeoutMinutes)
            /\ idle_poll_count[1] = MaxIdlePolls(idleTimeoutMinutes))
    /\ [][(wpc[1] = "receiving" /\ wpc'[1] = "process") =>
            (idle_poll_count'[1] = 0 /\ emptyRun'[1] = 0)]_vars
    /\ [][(wpc[1] # "exited" /\ wpc'[1] = "exited") =>
            (wpc[1] = "receiving" /\ \A m \in Msgs : qstate[m] # "visible")]_vars

\* every lead was processed, one of them at its second delivery, and the
\* worker has left on idleness
IdleTerminationWitness ==
    /\ ExitedOnIdle
    /\ QueueDrained
    /\ job.processed_leads = MaxLeads
    /\ job.failed_leads >= 1

====
